---------------------------- MODULE Spec2Model ----------------------------
(***************************************************************************)
(* The MovieLens part of data_pipeline_project: the loader                 *)
(* (scripts/movielens_data_loader.py), the four analyses                   *)
(* (scripts/movielens_analyzer.py) and the DAG that runs them              *)
(* (dags/movielens_pipeline_dag.py).                                       *)
(*                                                                         *)
(* Numbers: pandas' round(2) / round(3) results are kept as scaled         *)
(* integers (hundredths for ages, thousandths for ratings).  NaN is the    *)
(* value NaN below, never a number.                                        *)
(***************************************************************************)
EXTENDS Integers, Sequences, FiniteSets, TLC

\* ------------------------------------------------------------------ bounds
NumUsers == 3          \* users (and raters) in the generated datasets
MaxLoads == 3          \* download_and_load_data calls counted per behaviour
MaxMinRatings == 2     \* min_ratings is drawn from 0..MaxMinRatings
MaxTopN == 2           \* top_n is drawn from 0..MaxTopN

\* ------------------------------------------------------------ small helpers
NaN == -999999

Max(a, b) == IF a >= b THEN a ELSE b
Min(a, b) == IF a <= b THEN a ELSE b

Range(s) == {s[i] : i \in 1..Len(s)}

RECURSIVE SeqSum(_)
SeqSum(s) == IF s = <<>> THEN 0 ELSE Head(s) + SeqSum(Tail(s))

RECURSIVE SeqMax(_)
SeqMax(s) == IF Len(s) = 1 THEN s[1] ELSE Max(Head(s), SeqMax(Tail(s)))

RECURSIVE SeqMin(_)
SeqMin(s) == IF Len(s) = 1 THEN s[1] ELSE Min(Head(s), SeqMin(Tail(s)))

\* the subsequence of s whose elements satisfy Test, in s's order
SelectRows(s, Test(_)) == SelectSeq(s, Test)

\* the distinct values of a set of integers in ascending order
RECURSIVE SortedInts(_)
SortedInts(S) ==
    IF S = {} THEN <<>>
    ELSE LET m == CHOOSE x \in S : \A y \in S : x <= y
         IN <<m>> \o SortedInts(S \ {m})

\* round-half-even of num/den (den > 0, num >= 0): numpy's around
RoundDiv(num, den) ==
    LET q == num \div den
        r == num % den
    IN IF 2 * r < den THEN q
       ELSE IF 2 * r > den THEN q + 1
       ELSE IF q % 2 = 0 THEN q ELSE q + 1

\* floor of the square root of num/den, searched in lo..hi
RECURSIVE FloorSqrt(_, _, _, _)
FloorSqrt(num, den, lo, hi) ==
    IF lo >= hi THEN lo
    ELSE LET mid == (lo + hi + 1) \div 2
         IN IF mid * mid * den <= num
            THEN FloorSqrt(num, den, mid, hi)
            ELSE FloorSqrt(num, den, lo, mid - 1)

\* the integer nearest to sqrt(num/den)
RoundSqrt(num, den, hi) ==
    LET k == FloorSqrt(num, den, 0, hi)
    IN IF (2 * k + 1) * (2 * k + 1) * den < 4 * num THEN k + 1 ELSE k

\* a faulty variant of AggMean: the mean cut off after the last kept decimal
AggMean_Truncated(xs, scale) == (SeqSum(xs) * scale) \div Len(xs)

\* pandas' mean of a group, rounded to `scale` (100 = 2 decimals, 1000 = 3)
AggMean(xs, scale) == RoundDiv(SeqSum(xs) * scale, Len(xs))

\* pandas' std of a group (sample standard deviation, ddof = 1), rounded to
\* `scale`; NaN for a group of fewer than two values
AggStd(xs, scale) ==
    IF Len(xs) < 2 THEN NaN
    ELSE LET n == Len(xs)
             sq == [i \in 1..n |-> xs[i] * xs[i]]
             num == (n * SeqSum(sq) - SeqSum(xs) * SeqSum(xs)) * scale * scale
             den == n * (n - 1)
         IN RoundSqrt(num, den, scale * (SeqMax(xs) - SeqMin(xs)) + 1)

\* a stable sort of <<[key, val], ...>> by key, largest first: equal keys keep
\* their order (list.sort(reverse=True); pandas sort_values(ascending=False)
\* on the short frames of this model)
RECURSIVE InsertDesc(_, _)
InsertDesc(sorted, e) ==
    IF sorted = <<>> THEN <<e>>
    ELSE IF Head(sorted).key >= e.key
         THEN <<Head(sorted)>> \o InsertDesc(Tail(sorted), e)
         ELSE <<e>> \o sorted

RECURSIVE SortDesc(_)
SortDesc(s) ==
    IF s = <<>> THEN <<>>
    ELSE InsertDesc(SortDesc(SubSeq(s, 1, Len(s) - 1)), s[Len(s)])

\* DataFrame.head(n), n >= 0
HeadN(s, n) == SubSeq(s, 1, Min(n, Len(s)))

\* -------------------------------------------------------------- the dataset
\* A DataFrame is [obj, rows]: obj names the object (the serial number of the
\* download_and_load_data call that built it), rows its rows in order.
\* None is the value the module globals start with.
None == [obj |-> 0, rows |-> <<>>]

IsNone(df) == df.obj = 0

DataFrame(o, r) == [obj |-> o, rows |-> r]

\* pandas' NaN in a string column (a missing release date)
NaNDate == "NaN"

\* the occupation names of the model, in the (alphabetical) order in which
\* groupby and the tuple sort of the genre analysis compare them
OccupationOrder == <<"doctor", "engineer", "student">>

StrRank(order, x) == CHOOSE i \in 1..Len(order) : order[i] = x

\* the distinct values of a set of names, sorted by their rank in `order`
RECURSIVE SortedNames(_, _)
SortedNames(order, S) ==
    IF order = <<>> THEN <<>>
    ELSE (IF Head(order) \in S THEN <<Head(order)>> ELSE <<>>)
         \o SortedNames(Tail(order), S)

\* the 19 genre indicator columns of u.item, in file order
genre_columns ==
    << "unknown", "action", "adventure", "animation", "childrens", "comedy",
       "crime", "documentary", "drama", "fantasy", "film_noir", "horror",
       "musical", "mystery", "romance", "sci_fi", "thriller", "war", "western" >>

\* genre_col.replace('_', '-').title()
TitleCased(col) ==
    CASE col = "unknown" -> "Unknown"
      [] col = "action" -> "Action"
      [] col = "adventure" -> "Adventure"
      [] col = "animation" -> "Animation"
      [] col = "childrens" -> "Childrens"
      [] col = "comedy" -> "Comedy"
      [] col = "crime" -> "Crime"
      [] col = "documentary" -> "Documentary"
      [] col = "drama" -> "Drama"
      [] col = "fantasy" -> "Fantasy"
      [] col = "film_noir" -> "Film-Noir"
      [] col = "horror" -> "Horror"
      [] col = "musical" -> "Musical"
      [] col = "mystery" -> "Mystery"
      [] col = "romance" -> "Romance"
      [] col = "sci_fi" -> "Sci-Fi"
      [] col = "thriller" -> "Thriller"
      [] col = "war" -> "War"
      [] col = "western" -> "Western"

\* genre_name.replace('-', ' ')
DashToSpace(name) ==
    CASE name = "Sci-Fi" -> "Sci Fi"
      [] name = "Film-Noir" -> "Film Noir"
      [] OTHER -> name

\* a faulty variant of GenreName: no special case, every dash becomes a space
GenreName_NoSpecialCases(col) == DashToSpace(TitleCased(col))

\* the display name get_movie_genres gives a genre column
GenreName(col) ==
    LET genre_name == TitleCased(col)
    IN IF genre_name = "Sci-Fi" THEN "Sci-Fi"
       ELSE IF genre_name = "Film-Noir" THEN "Film-Noir"
       ELSE IF genre_name = "Childrens" THEN "Children's"
       ELSE DashToSpace(genre_name)

\* the movie-genre rows of one movie: one per indicator equal to 1, in
\* genre_columns order
RECURSIVE GenresOfMovie(_, _)
GenresOfMovie(movie, cols) ==
    IF cols = <<>> THEN <<>>
    ELSE (IF Head(cols) \in movie.flags
          THEN << [movie_id |-> movie.movie_id, title |-> movie.title,
                   genre |-> GenreName(Head(cols))] >>
          ELSE <<>>)
         \o GenresOfMovie(movie, Tail(cols))

\* MovieLensDataLoader.get_movie_genres
RECURSIVE get_movie_genres(_)
get_movie_genres(movies) ==
    IF movies = <<>> THEN <<>>
    ELSE GenresOfMovie(Head(movies), genre_columns)
         \o get_movie_genres(Tail(movies))

\* the contents of u.genre and u.occupation (the same in every dataset)
GenreFile ==
    << [genre |-> "unknown", genre_id |-> 0], [genre |-> "Action", genre_id |-> 1],
       [genre |-> "Comedy", genre_id |-> 5], [genre |-> "Drama", genre_id |-> 8] >>

OccupationFile ==
    [i \in 1..Len(OccupationOrder) |->
        [occupation |-> OccupationOrder[i], occupation_id |-> i - 1]]

\* ------------------------------------------------------------------ loader
DataFiles == {"u.data", "u.user", "u.item", "u.genre", "u.occupation"}

\* MovieLensDataLoader.__init__: required_files, in the order checked
required_files == <<"u.data", "u.user", "u.item", "u.genre">>

\* a faulty variant of InitRaises: only the directory is verified
InitRaises_DirOnly(dir, files) == ~dir

\* MovieLensDataLoader.__init__ raises: the directory or a required file is
\* absent
InitRaises(dir, files) ==
    \/ ~dir
    \/ \E i \in 1..Len(required_files) : required_files[i] \notin files

\* the statistics of download_and_load_data raise (ZeroDivisionError in the
\* sparsity: len(users_df) * len(movies_df) = 0)
StatsRaise(d) == Len(d.users) * Len(d.movies) = 0

\* the dictionary download_and_load_data returns (counts only)
DataInfo(d) ==
    [ total_ratings |-> Len(d.ratings),
      total_users |-> Len(d.users),
      total_movies |-> Len(d.movies),
      total_genres |-> Len(GenreFile),
      total_occupations |-> Len(OccupationFile),
      unique_users |-> Cardinality({d.ratings[i].user_id : i \in 1..Len(d.ratings)}),
      unique_movies |-> Cardinality({d.ratings[i].movie_id : i \in 1..Len(d.ratings)}) ]

NoInfo == [total_ratings |-> 0, total_users |-> 0, total_movies |-> 0,
           total_genres |-> 0, total_occupations |-> 0, unique_users |-> 0,
           unique_movies |-> 0]

\* the six module globals as one record
Tables(r, u, m, g, o, mg) ==
    [ratings |-> r, users |-> u, movies |-> m, genres |-> g,
     occupations |-> o, movie_genres |-> mg]

\* a faulty variant of Built: a load after the first one appends the ratings
\* it reads to those read before
Built_Appending(d, o) ==
    Tables(DataFrame(o, IF o > 1 THEN d.ratings \o d.ratings ELSE d.ratings),
           DataFrame(o, d.users), DataFrame(o, d.movies),
           DataFrame(o, GenreFile), DataFrame(o, OccupationFile),
           DataFrame(o, get_movie_genres(d.movies)))

\* the DataFrames download_and_load_data builds from the files: objects o
Built(d, o) ==
    Tables(DataFrame(o, d.ratings), DataFrame(o, d.users), DataFrame(o, d.movies),
           DataFrame(o, GenreFile), DataFrame(o, OccupationFile),
           DataFrame(o, get_movie_genres(d.movies)))

\* the files download_and_load_data reads, in the order it reads them:
\* load_ratings, load_users, load_movies, load_genres, load_occupations
read_order == <<"u.data", "u.user", "u.item", "u.genre", "u.occupation">>

\* the files read before the first absent one (all of them when none is)
RECURSIVE ReadUntilMissing(_, _)
ReadUntilMissing(order, files) ==
    IF order = <<>> \/ Head(order) \notin files THEN {}
    ELSE {Head(order)} \cup ReadUntilMissing(Tail(order), files)

\* download_and_load_data, run to its end against directory state (dir, files)
\* holding dataset d, with the globals `old`: what it read, whether it raised,
\* the globals it leaves, and what it returned.
\*   1. __init__ raises before any read;
\*   2. the files are read in read_order; reading an absent file raises
\*      (u.occupation is not among the files __init__ verifies);
\*   3. the genre relation is derived and the six globals are assigned;
\*   4. the statistics are computed (they may raise after the assignment).
download_and_load_data(dir, files, d, old, o) ==
    IF InitRaises(dir, files)
    THEN [outcome |-> "raised", step |-> "init", filesRead |-> {},
          tables |-> old, info |-> NoInfo]
    ELSE IF ReadUntilMissing(read_order, files) # DataFiles
    THEN [outcome |-> "raised", step |-> "read",
          filesRead |-> ReadUntilMissing(read_order, files),
          tables |-> old, info |-> NoInfo]
    ELSE IF StatsRaise(d)
    THEN [outcome |-> "raised", step |-> "stats", filesRead |-> DataFiles,
          tables |-> Built(d, o), info |-> NoInfo]
    ELSE [outcome |-> "returned", step |-> "done", filesRead |-> DataFiles,
          tables |-> Built(d, o), info |-> DataInfo(d)]

\* get_data: the five globals it returns, OCCUPATIONS_DF is not among them
\* (the NameError branch cannot be taken: the globals are defined, as None,
\* when the module is imported)
get_data(t) ==
    [ratings_df |-> t.ratings, users_df |-> t.users, movies_df |-> t.movies,
     genres_df |-> t.genres, movie_genres_df |-> t.movie_genres]

\* ---------------------------------------------------------------- analyses
\* column `age` of the users of one occupation, in table order
AgesOf(users, occ) ==
    LET sel == SelectSeq(users, LAMBDA u : u.occupation = occ)
    IN [i \in 1..Len(sel) |-> sel[i].age]

\* users_df.groupby('occupation')['age'].agg(['mean','count','std','min','max'])
\* .round(2): one row per occupation, keys sorted; mean and std in hundredths
occupation_age_stats(users) ==
    LET occs == SortedNames(OccupationOrder,
                            {users[i].occupation : i \in 1..Len(users)})
    IN [k \in 1..Len(occs) |->
          LET ages == AgesOf(users, occs[k])
          IN [occupation |-> occs[k],
              mean |-> AggMean(ages, 100),
              count |-> Len(ages),
              std |-> AggStd(ages, 100),
              min |-> SeqMin(ages),
              max |-> SeqMax(ages)]]

\* a faulty variant of MeanAgeRecord: the NaN of a one-member group is passed on
MeanAgeRecord_KeepsNaN(stats) ==
    [occupation |-> stats.occupation,
     mean_age |-> stats.mean,
     user_count |-> stats.count,
     std_dev |-> stats.std,
     min_age |-> stats.min,
     max_age |-> stats.max]

\* the record analyze_mean_age_by_occupation appends for one row of the stats
MeanAgeRecord(stats) ==
    [occupation |-> stats.occupation,
     mean_age |-> stats.mean,
     user_count |-> stats.count,
     std_dev |-> IF stats.std # NaN THEN stats.std ELSE 0,
     min_age |-> stats.min,
     max_age |-> stats.max]

\* analyze_mean_age_by_occupation, from the tables it works on
mean_age_results(users_df) ==
    LET stats == occupation_age_stats(users_df.rows)
        results == [k \in 1..Len(stats) |-> MeanAgeRecord(stats[k])]
        keyed == [k \in 1..Len(results) |->
                    [key |-> results[k].mean_age, val |-> results[k]]]
        sorted == SortDesc(keyed)
    IN [k \in 1..Len(sorted) |-> sorted[k].val]

\* column `rating` of the ratings of one movie, in table order
RatingsOf(ratings, movie_id) ==
    LET sel == SelectSeq(ratings, LAMBDA r : r.movie_id = movie_id)
    IN [i \in 1..Len(sel) |-> sel[i].rating]

\* ratings_df.groupby('movie_id')['rating'].agg(['mean','count','std']).round(3):
\* one row per rated movie, movie ids ascending; mean and std in thousandths
movie_stats(ratings) ==
    LET ids == SortedInts({ratings[i].movie_id : i \in 1..Len(ratings)})
    IN [k \in 1..Len(ids) |->
          LET rs == RatingsOf(ratings, ids[k])
          IN [movie_id |-> ids[k],
              mean |-> AggMean(rs, 1000),
              count |-> Len(rs),
              std |-> AggStd(rs, 1000)]]

\* a faulty variant of qualified_movies: the threshold is exclusive
qualified_movies_Strict(stats, min_ratings) ==
    SelectSeq(stats, LAMBDA st : st.count > min_ratings)

\* movie_stats[movie_stats['count'] >= min_ratings]
qualified_movies(stats, min_ratings) ==
    SelectSeq(stats, LAMBDA st : st.count >= min_ratings)

\* a faulty variant of top_movies: the first top_n rows in movie id order, unsorted
top_movies_Unsorted(qualified, top_n) == HeadN(qualified, top_n)

\* qualified_movies.sort_values('mean', ascending=False).head(top_n)
top_movies(qualified, top_n) ==
    LET keyed == [k \in 1..Len(qualified) |->
                    [key |-> qualified[k].mean, val |-> qualified[k]]]
        sorted == SortDesc(keyed)
    IN HeadN([k \in 1..Len(sorted) |-> sorted[k].val], top_n)

\* movies_df[movies_df['movie_id'] == movie_id]
MovieMatch(movies, movie_id) ==
    SelectSeq(movies, LAMBDA m : m.movie_id = movie_id)

\* movie_info['release_date'] if pd.notna(...) else 'Unknown'
ReleaseDate(movie_info) ==
    IF movie_info.release_date # NaNDate THEN movie_info.release_date ELSE "Unknown"

\* the record analyze_top_rated_movies appends for one row of top_movies
TopMovieRecord(stats, movie_info) ==
    [movie_id |-> stats.movie_id,
     title |-> movie_info.title,
     avg_rating |-> stats.mean,
     rating_count |-> stats.count,
     rating_std |-> IF stats.std # NaN THEN stats.std ELSE 0,
     release_date |-> ReleaseDate(movie_info)]

\* analyze_top_rated_movies, from the tables it works on: .iloc[0] raises
\* (IndexError) when a rated movie has no row in the movies table
top_rated_results(ratings_df, movies_df, min_ratings, top_n) ==
    LET top == top_movies(qualified_movies(movie_stats(ratings_df.rows), min_ratings),
                          top_n)
    IN IF \E k \in 1..Len(top) : MovieMatch(movies_df.rows, top[k].movie_id) = <<>>
       THEN [outcome |-> "raised", result |-> <<>>]
       ELSE [outcome |-> "returned",
             result |-> [k \in 1..Len(top) |->
                           TopMovieRecord(top[k],
                               MovieMatch(movies_df.rows, top[k].movie_id)[1])]]

\* a faulty variant of get_age_group: the upper ends of the ranges are included
get_age_group_UpperInclusive(age) ==
    IF 20 <= age /\ age <= 25 THEN "20-25"
    ELSE IF 25 <= age /\ age <= 35 THEN "25-35"
    ELSE IF 35 <= age /\ age <= 45 THEN "35-45"
    ELSE IF age >= 45 THEN "45+"
    ELSE "Under 20"

\* get_age_group of analyze_top_genres_by_occupation_age
get_age_group(age) ==
    IF 20 <= age /\ age < 25 THEN "20-25"
    ELSE IF 25 <= age /\ age < 35 THEN "25-35"
    ELSE IF 35 <= age /\ age < 45 THEN "35-45"
    ELSE IF age >= 45 THEN "45+"
    ELSE "Under 20"

\* the age-group labels and the genre display names in string order
AgeGroupOrder == <<"20-25", "25-35", "35-45", "45+", "Under 20">>

GenreOrder ==
    << "Action", "Adventure", "Animation", "Children's", "Comedy", "Crime",
       "Documentary", "Drama", "Fantasy", "Film-Noir", "Horror", "Musical",
       "Mystery", "Romance", "Sci-Fi", "Thriller", "Unknown", "War", "Western" >>

RECURSIVE Flatten(_)
Flatten(ss) == IF ss = <<>> THEN <<>> ELSE Head(ss) \o Flatten(Tail(ss))

\* users_with_age_group: users_df plus the age_group column
users_with_age_group(users) ==
    [i \in 1..Len(users) |->
        [user_id |-> users[i].user_id, age |-> users[i].age,
         occupation |-> users[i].occupation,
         age_group |-> get_age_group(users[i].age)]]

\* a faulty variant of ratings_with_genres: a rating is joined with the first
\* genre of its movie only
ratings_with_genres_FirstGenre(ratings, users, movie_genres) ==
    LET uag == users_with_age_group(users)
        forRating(r) ==
            LET us == SelectSeq(uag, LAMBDA u : u.user_id = r.user_id)
                gs == SelectSeq(movie_genres, LAMBDA g : g.movie_id = r.movie_id)
            IN IF gs = <<>> THEN <<>>
               ELSE [j \in 1..Len(us) |->
                       [occupation |-> us[j].occupation, age_group |-> us[j].age_group,
                        genre |-> gs[1].genre, rating |-> r.rating]]
    IN Flatten([i \in 1..Len(ratings) |-> forRating(ratings[i])])

\* ratings_df.merge(users_with_age_group, on='user_id').merge(movie_genres_df,
\* on='movie_id'): one row per (rating, user row, genre row) that match
ratings_with_genres(ratings, users, movie_genres) ==
    LET uag == users_with_age_group(users)
        forUser(r, u) ==
            LET gs == SelectSeq(movie_genres, LAMBDA g : g.movie_id = r.movie_id)
            IN [k \in 1..Len(gs) |->
                  [occupation |-> u.occupation, age_group |-> u.age_group,
                   genre |-> gs[k].genre, rating |-> r.rating]]
        forRating(r) ==
            LET us == SelectSeq(uag, LAMBDA u : u.user_id = r.user_id)
            IN Flatten([j \in 1..Len(us) |-> forUser(r, us[j])])
    IN Flatten([i \in 1..Len(ratings) |-> forRating(ratings[i])])

\* the (occupation, age_group) keys of a set of rows, sorted as tuples
SortedSegments(S) ==
    Flatten([i \in 1..Len(OccupationOrder) |->
        Flatten([j \in 1..Len(AgeGroupOrder) |->
            IF <<OccupationOrder[i], AgeGroupOrder[j]>> \in S
            THEN << <<OccupationOrder[i], AgeGroupOrder[j]>> >>
            ELSE <<>>])])

\* the rows of genre_stats (groupby(['occupation','age_group','genre'])
\* ['rating'].agg(['mean','count']).round(3)) of one segment, genres sorted
genre_stats(joined, occ, ag) ==
    LET seg == SelectSeq(joined, LAMBDA x : x.occupation = occ /\ x.age_group = ag)
        genres == SortedNames(GenreOrder, {seg[i].genre : i \in 1..Len(seg)})
    IN [k \in 1..Len(genres) |->
          LET sel == SelectSeq(seg, LAMBDA x : x.genre = genres[k])
              rs == [i \in 1..Len(sel) |-> sel[i].rating]
          IN [index |-> <<occ, ag, genres[k]>>,
              mean |-> AggMean(rs, 1000),
              count |-> Len(rs)]]

\* a faulty variant of genre_list: the first three genres in name order
genre_list_Unsorted(group_data) ==
    [k \in 1..Min(3, Len(group_data)) |->
        [genre |-> group_data[k].index,
         avg_rating |-> group_data[k].mean,
         rating_count |-> group_data[k].count]]

\* group_data.sort_values('mean', ascending=False).head(3), as genre_list.
\* iterrows yields the row's index, which is the whole
\* (occupation, age_group, genre) key of genre_stats: that is what the
\* 'genre' field receives.
genre_list(group_data) ==
    LET keyed == [k \in 1..Len(group_data) |->
                    [key |-> group_data[k].mean, val |-> group_data[k]]]
        top_genres == HeadN(SortDesc(keyed), 3)
    IN [k \in 1..Len(top_genres) |->
          [genre |-> top_genres[k].val.index,
           avg_rating |-> top_genres[k].val.mean,
           rating_count |-> top_genres[k].val.count]]

\* a faulty variant of total_users: the users of the occupation, of any age
total_users_AnyAge(uag, occupation, age_group) ==
    Len(SelectSeq(uag, LAMBDA u : u.occupation = occupation))

\* users_with_age_group[(occupation == ...) & (age_group == ...)].shape[0]
total_users(uag, occupation, age_group) ==
    Len(SelectSeq(uag, LAMBDA u : u.occupation = occupation
                                  /\ u.age_group = age_group))

\* analyze_top_genres_by_occupation_age, from the tables it works on.  The
\* merge on 'movie_id' raises (KeyError) when movie_genres_df was built from
\* an empty list: such a DataFrame has no columns.
top_genres_results(ratings_df, users_df, movie_genres_df) ==
    IF movie_genres_df.rows = <<>>
    THEN [outcome |-> "raised", result |-> <<>>]
    ELSE
    LET joined == ratings_with_genres(ratings_df.rows, users_df.rows,
                                      movie_genres_df.rows)
        uag == users_with_age_group(users_df.rows)
        segs == SortedSegments({<<joined[i].occupation, joined[i].age_group>> :
                                   i \in 1..Len(joined)})
    IN [outcome |-> "returned",
        result |-> [k \in 1..Len(segs) |->
            [occupation |-> segs[k][1],
             age_group |-> segs[k][2],
             top_genres |-> genre_list(genre_stats(joined, segs[k][1], segs[k][2])),
             total_users |-> total_users(uag, segs[k][1], segs[k][2])]]]

\* ------------------------------------------------------ similarity search
\* Titles and search strings are compared token by token (words and
\* punctuation marks; blanks are not tokens).
Tokens(str) ==
    CASE str = "Toy Story (1995)" -> <<"Toy", "Story", "(", "1995", ")">>
      [] str = "Usual Suspects, The (1995)" ->
            <<"Usual", "Suspects", ",", "The", "(", "1995", ")">>
      [] str = "Heat (1995)" -> <<"Heat", "(", "1995", ")">>
      [] str = "Usual Suspects" -> <<"Usual", "Suspects">>
      [] str = "toy story" -> <<"toy", "story">>
      [] str = "Heat" -> <<"Heat">>
      [] str = "Casablanca" -> <<"Casablanca">>
      [] str = "(1995" -> <<"(", "1995">>
      [] OTHER -> <<str>>

\* str.lower() of one token
Lower(tok) ==
    CASE tok = "Toy" -> "toy"
      [] tok = "Story" -> "story"
      [] tok = "Usual" -> "usual"
      [] tok = "Suspects" -> "suspects"
      [] tok = "The" -> "the"
      [] tok = "Heat" -> "heat"
      [] tok = "Casablanca" -> "casablanca"
      [] OTHER -> tok

\* the search string read as a regular expression (str.contains has
\* regex=True by default): "(" and ")" delimit a group and match no text;
\* an unbalanced parenthesis is a pattern error
RECURSIVE ParenDepthOk(_, _)
ParenDepthOk(toks, depth) ==
    IF toks = <<>> THEN depth = 0
    ELSE IF Head(toks) = "(" THEN ParenDepthOk(Tail(toks), depth + 1)
    ELSE IF Head(toks) = ")" THEN depth > 0 /\ ParenDepthOk(Tail(toks), depth - 1)
    ELSE ParenDepthOk(Tail(toks), depth)

PatternError(pattern) == ~ParenDepthOk(Tokens(pattern), 0)

PatternLiterals(pattern) ==
    LET lit == SelectSeq(Tokens(pattern), LAMBDA t : t \notin {"(", ")"})
    IN [i \in 1..Len(lit) |-> Lower(lit[i])]

\* title.str.contains(pattern, case=False): the pattern's literals occur as
\* consecutive tokens of the title, compared in lower case
Contains(title, pattern) ==
    LET text == [i \in 1..Len(Tokens(title)) |-> Lower(Tokens(title)[i])]
        lit == PatternLiterals(pattern)
    IN \E start \in 0..(Len(text) - Len(lit)) :
          \A i \in 1..Len(lit) : text[start + i] = lit[i]

\* movies_df[movies_df['title'].str.contains(pattern, case=False, na=False)]
TitleMatches(movies, pattern) ==
    SelectSeq(movies, LAMBDA m : Contains(m.title, pattern))

\* target_movie_match of find_similar_movies: the rows matching the search
\* string, or those matching 'Usual Suspects' when there are none
target_movie_match(movies, target_movie) ==
    LET first == TitleMatches(movies, target_movie)
    IN IF first = <<>> THEN TitleMatches(movies, "Usual Suspects") ELSE first

\* correlations are printed in units of 1/CorrScale, similarity scores in
\* units of 1/(2 * CorrScale); thresholds are given in hundredths
CorrScale == 100

\* the paired ratings (target, movie) of the users who rated both: the merge
\* on user_id
merged_ratings(target_rows, movie_rows) ==
    Flatten([i \in 1..Len(target_rows) |->
        LET ms == SelectSeq(movie_rows,
                            LAMBDA m : m.user_id = target_rows[i].user_id)
        IN [j \in 1..Len(ms) |->
              [rating_target |-> target_rows[i].rating,
               rating_movie |-> ms[j].rating]]])

\* np.corrcoef(target_vals, movie_vals)[0, 1], kept as [cov, var, err]: the
\* exact ratio is cov / sqrt(var) (var = varx * vary), and err is the sign of
\* the rounding error the floating-point computation (deviations from the
\* means, two dot products, a square root and two divisions) adds to it: e as
\* given, except that corrcoef clips its result to [-1, 1].  nan is TRUE when a
\* variance is zero (0/0).
corrcoef(pairs, e) ==
    LET n == Len(pairs)
        x == [i \in 1..n |-> pairs[i].rating_target]
        y == [i \in 1..n |-> pairs[i].rating_movie]
        sx == SeqSum(x)
        sy == SeqSum(y)
        vx == n * SeqSum([i \in 1..n |-> x[i] * x[i]]) - sx * sx
        vy == n * SeqSum([i \in 1..n |-> y[i] * y[i]]) - sy * sy
        c == n * SeqSum([i \in 1..n |-> x[i] * y[i]]) - sx * sy
    IN IF vx * vy = 0 THEN [nan |-> TRUE, cov |-> 0, var |-> 1, err |-> 0]
       ELSE [nan |-> FALSE, cov |-> c, var |-> vx * vy,
             err |-> IF c * c = vx * vy
                     THEN (IF c > 0 THEN Min(e, 0) ELSE Max(e, 0))
                     ELSE e]

\* a faulty variant of NanToZero: an undefined correlation counts as 1.0
NanToZero_One(corr) ==
    IF corr.nan THEN [nan |-> FALSE, cov |-> 1, var |-> 1, err |-> 0] ELSE corr

\* if np.isnan(correlation): correlation = 0.0
NanToZero(corr) ==
    IF corr.nan THEN [nan |-> FALSE, cov |-> 0, var |-> 1, err |-> 0] ELSE corr

\* the exact ratios of two correlations compare as c1 < c2
ExactLess(c1, c2) ==
    IF c1.cov < 0 /\ c2.cov >= 0 THEN TRUE
    ELSE IF c1.cov >= 0 /\ c2.cov < 0 THEN FALSE
    ELSE IF c1.cov >= 0
         THEN c1.cov * c1.cov * c2.var < c2.cov * c2.cov * c1.var
         ELSE c1.cov * c1.cov * c2.var > c2.cov * c2.cov * c1.var

\* corr1 < corr2 as floating-point numbers: the exact ratios decide, and the
\* rounding errors when the exact ratios are equal
CorrLess(c1, c2) ==
    \/ ExactLess(c1, c2)
    \/ (~ExactLess(c2, c1) /\ c1.err < c2.err)

\* the correlation in units of 1/CorrScale
CorrValue(corr) ==
    LET k == RoundSqrt(corr.cov * corr.cov * CorrScale * CorrScale, corr.var, CorrScale)
    IN IF corr.cov < 0 THEN 0 - k ELSE k

\* a faulty variant of SimilarityScore: the correlation itself
SimilarityScore_Unshifted(corr) == CorrValue(corr)

\* similarity_score = (correlation + 1) / 2, in units of 1/(2 * CorrScale)
SimilarityScore(corr) == CorrValue(corr) + CorrScale

\* a faulty variant of PassesSimilarity: similarity_score > similarity_threshold
PassesSimilarity_Strict(corr, threshold) ==
    LET t == 2 * threshold - 100
        lhs == 10000 * corr.cov * corr.cov
        rhs == t * t * corr.var
    IN IF lhs = rhs /\ ((t >= 0 /\ corr.cov >= 0) \/ (t <= 0 /\ corr.cov <= 0))
       THEN corr.err > 0
       ELSE IF t <= 0 /\ corr.cov >= 0 THEN TRUE
       ELSE IF t > 0 /\ corr.cov < 0 THEN FALSE
       ELSE IF t > 0 THEN lhs >= rhs
       ELSE lhs <= rhs

\* similarity_score >= similarity_threshold, the threshold in hundredths:
\* correlation >= (2 * threshold - 100) / 100.  The exact ratio decides when it
\* differs from that value; when it equals it, the rounding error of the
\* computed score decides.
PassesSimilarity(corr, threshold) ==
    LET t == 2 * threshold - 100
        lhs == 10000 * corr.cov * corr.cov
        rhs == t * t * corr.var
    IN IF lhs = rhs /\ ((t >= 0 /\ corr.cov >= 0) \/ (t <= 0 /\ corr.cov <= 0))
       THEN corr.err >= 0
       ELSE IF t <= 0 /\ corr.cov >= 0 THEN TRUE
       ELSE IF t > 0 /\ corr.cov < 0 THEN FALSE
       ELSE IF t > 0 THEN lhs >= rhs
       ELSE lhs <= rhs

\* a faulty variant of TooFewPairs: no candidate is discarded for its pairs
TooFewPairs_Never(merged) == FALSE

\* if len(merged_ratings) < 2: continue
TooFewPairs(merged) == Len(merged) < 2

\* the loop of find_similar_movies over corated_movies.groupby('movie_id'):
\* movie_similarities as a sequence in insertion (movie id) order
movie_similarities(ratings, target_movie_id, similarity_threshold, cooccurrence_threshold, fp) ==
    LET target_movie_ratings ==
            SelectSeq(ratings, LAMBDA r : r.movie_id = target_movie_id)
        target_users == {target_movie_ratings[i].user_id :
                            i \in 1..Len(target_movie_ratings)}
        corated_movies ==
            SelectSeq(ratings, LAMBDA r : r.user_id \in target_users
                                          /\ r.movie_id # target_movie_id)
        ids == SortedInts({corated_movies[i].movie_id : i \in 1..Len(corated_movies)})
        entry(movie_id) ==
            LET movie_ratings ==
                    SelectSeq(corated_movies, LAMBDA r : r.movie_id = movie_id)
                common_users == {movie_ratings[i].user_id :
                                    i \in 1..Len(movie_ratings)} \cap target_users
                cooccurrence_count == Cardinality(common_users)
                merged == merged_ratings(
                    SelectSeq(target_movie_ratings,
                              LAMBDA r : r.user_id \in common_users),
                    SelectSeq(movie_ratings, LAMBDA r : r.user_id \in common_users))
                correlation == NanToZero(corrcoef(merged, fp[movie_id]))
            IN IF cooccurrence_count < cooccurrence_threshold THEN <<>>
               ELSE IF TooFewPairs(merged) THEN <<>>
               ELSE IF PassesSimilarity(correlation, similarity_threshold)
               THEN << [movie_id |-> movie_id,
                        corr |-> correlation,
                        cooccurrence_count |-> cooccurrence_count] >>
               ELSE <<>>
    IN Flatten([k \in 1..Len(ids) |-> entry(ids[k])])

\* a faulty variant of sorted_movies: the first top_n entries in insertion order
sorted_movies_Unsorted(sims, top_n) == HeadN(sims, top_n)

\* sorted(movie_similarities.items(), key=similarity_score, reverse=True)
\* [:top_n]: the key of an entry is the number of entries it exceeds
sorted_movies(sims, top_n) ==
    LET keyed == [k \in 1..Len(sims) |->
                    [key |-> Cardinality({j \in 1..Len(sims) :
                                             CorrLess(sims[j].corr, sims[k].corr)}),
                     val |-> sims[k]]]
        sorted == SortDesc(keyed)
    IN HeadN([k \in 1..Len(sorted) |-> sorted[k].val], top_n)

\* find_similar_movies, from the tables it works on
similar_movies_results(ratings_df, movies_df, target_movie, similarity_threshold, cooccurrence_threshold, top_n, fp) ==
    IF PatternError(target_movie)
    THEN [outcome |-> "raised", result |-> <<>>, target_movie_id |-> 0]
    ELSE
    LET match == target_movie_match(movies_df.rows, target_movie)
    IN IF match = <<>>
       THEN [outcome |-> "raised", result |-> <<>>, target_movie_id |-> 0]
       ELSE
       LET target_movie_id == match[1].movie_id
           top == sorted_movies(
                    movie_similarities(ratings_df.rows, target_movie_id,
                                       similarity_threshold, cooccurrence_threshold, fp),
                    top_n)
       IN IF \E k \in 1..Len(top) : MovieMatch(movies_df.rows, top[k].movie_id) = <<>>
          THEN [outcome |-> "raised", result |-> <<>>,
                target_movie_id |-> target_movie_id]
          ELSE [outcome |-> "returned",
                target_movie_id |-> target_movie_id,
                result |-> [k \in 1..Len(top) |->
                    LET movie_info == MovieMatch(movies_df.rows, top[k].movie_id)[1]
                    IN [movie_id |-> top[k].movie_id,
                        title |-> movie_info.title,
                        similarity_score |-> SimilarityScore(top[k].corr),
                        cooccurrence_count |-> top[k].cooccurrence_count,
                        correlation |-> CorrValue(top[k].corr),
                        release_date |-> ReleaseDate(movie_info)]]]

\* ------------------------------------------------------------ the datasets
User(id, age, gender, occ) ==
    [user_id |-> id, age |-> age, gender |-> gender, occupation |-> occ]

Movie(id, title, date, flags) ==
    [movie_id |-> id, title |-> title, release_date |-> date, flags |-> flags]

Rating(u, m, r) == [user_id |-> u, movie_id |-> m, rating |-> r]

Dataset(r, u, m) == [ratings |-> r, users |-> u, movies |-> m]

BaseMovies ==
    << Movie(1, "Toy Story (1995)", "01-Jan-1995", {"animation", "childrens", "comedy"}),
       Movie(2, "Usual Suspects, The (1995)", NaNDate, {"crime", "thriller"}) >>

ThreeMovies == BaseMovies \o << Movie(3, "Heat (1995)", "15-Dec-1995", {"action", "crime"}) >>

\* the datasets of the process model: one whose u.user is empty (the files
\* may be replaced by it), the demographic scenario of the specification and
\* a second dataset
EmptyUsersDataset == Dataset(<< >>, << >>, BaseMovies)

\* a dataset whose u.item has no title that matches 'Usual Suspects'
NoTargetDataset ==
    Dataset(<< Rating(1, 1, 4), Rating(2, 1, 5) >>,
            << User(1, 30, "M", "doctor"), User(2, 22, "F", "student") >>,
            << Movie(1, "Toy Story (1995)", "01-Jan-1995", {"animation", "childrens", "comedy"}) >>)

\* a dataset in which two movies have different mean ratings that are equal to
\* 3 decimals: movie 1 has 28 ratings (23 fours, 5 fives: 117/28 = 4.17857...),
\* movie 2 has 39 ratings (32 fours, 7 fives: 163/39 = 4.17948...)
RoundingTieDataset ==
    Dataset([i \in 1..67 |->
                IF i <= 28 THEN Rating(i, 1, IF i <= 23 THEN 4 ELSE 5)
                ELSE Rating(i - 28, 2, IF i <= 60 THEN 4 ELSE 5)],
            [i \in 1..39 |-> User(i, 20 + (i % 30), "M",
                                  IF i % 2 = 1 THEN "doctor" ELSE "engineer")],
            BaseMovies)

ConcDataset ==
    Dataset(<< Rating(1, 1, 5), Rating(1, 2, 4), Rating(2, 1, 3), Rating(2, 2, 2),
               Rating(3, 2, 5), Rating(3, 3, 4) >>,
            << User(1, 25, "M", "engineer"), User(2, 35, "F", "engineer"),
               User(3, 40, "M", "doctor") >>,
            ThreeMovies)

SampleDatasets ==
    { Dataset(<< Rating(1, 1, 5), Rating(1, 2, 4), Rating(2, 1, 3), Rating(2, 2, 2),
                 Rating(3, 2, 5), Rating(3, 3, 4) >>,
              << User(1, 25, "M", "engineer"), User(2, 35, "F", "engineer"),
                 User(3, 40, "M", "doctor") >>,
              ThreeMovies),
      Dataset(<< Rating(1, 1, 4), Rating(2, 1, 4), Rating(2, 3, 1) >>,
              << User(1, 19, "F", "student"), User(2, 45, "M", "doctor") >>,
              ThreeMovies) }

\* ------------------------------------------------------------------- state
VARIABLES
    dirExists,        \* the dataset directory exists
    present,          \* the data files that exist in it
    disk,             \* the dataset the files hold
    fpError,          \* per candidate movie, the sign of the rounding error of
                      \* its computed correlation on this build
    RATINGS_DF, USERS_DF, MOVIES_DF, GENRES_DF, OCCUPATIONS_DF, MOVIE_GENRES_DF,
    loads,            \* download_and_load_data calls made so far
    lastLoad,         \* how the most recent of them ended
    lastCall,         \* the most recent call of the public functions
    taskState,        \* the DAG run: the state of each task instance
    tries,            \* the attempts each task instance has started
    xcom,             \* what each task instance pushed
    dagRuns,          \* the runs of news_pipeline_dag, with date and state
    thread,           \* the threads of a process that runs the functions concurrently
    db,               \* the committed rows of the movielens tables of the warehouse
    connection,       \* the connection of the DatabaseManager
    lastStore         \* the most recent store_movielens_results call

dbVars == <<db, connection, lastStore>>
dataVars == <<dirExists, present, disk, fpError, dbVars>>
globalVars == <<RATINGS_DF, USERS_DF, MOVIES_DF, GENRES_DF, OCCUPATIONS_DF, MOVIE_GENRES_DF>>
procVars == <<globalVars, loads, lastLoad, lastCall>>
dagVars == <<taskState, tries, xcom, dagRuns>>
thrVars == <<thread>>
vars == <<dirExists, present, disk, fpError, RATINGS_DF, USERS_DF, MOVIES_DF, GENRES_DF, OCCUPATIONS_DF, MOVIE_GENRES_DF, loads, lastLoad, lastCall, taskState, tries, xcom, dagRuns, thread, db, connection, lastStore>>

\* the module globals as one record
Globals == Tables(RATINGS_DF, USERS_DF, MOVIES_DF, GENRES_DF, OCCUPATIONS_DF, MOVIE_GENRES_DF)

SetGlobals(t) ==
    /\ RATINGS_DF' = t.ratings
    /\ USERS_DF' = t.users
    /\ MOVIES_DF' = t.movies
    /\ GENRES_DF' = t.genres
    /\ OCCUPATIONS_DF' = t.occupations
    /\ MOVIE_GENRES_DF' = t.movie_genres

NoArgs == [min_ratings |-> 0, top_n |-> 0, target_movie |-> "",
           similarity_threshold |-> 0, cooccurrence_threshold |-> 0]

Call(op, args, sawNone, loadCalls, filesRead, outcome, result) ==
    [op |-> op, args |-> args, sawNone |-> sawNone, loadCalls |-> loadCalls,
     filesRead |-> filesRead, outcome |-> outcome, result |-> result]

NoCall == Call("none", NoArgs, FALSE, 0, {}, "none", <<>>)

AnalysisOps == {"analyze_mean_age_by_occupation", "analyze_top_rated_movies",
                "analyze_top_genres_by_occupation_age", "find_similar_movies"}

\* the head of every analysis: get_data(); when a table it needs is None,
\* download_and_load_data() and get_data() again; when that raises inside the
\* inner try, the except branch calls download_and_load_data() once more, and
\* what that call raises leaves the analysis.
PrepareResult(sawNone, first, second, old) ==
    IF ~sawNone
    THEN [sawNone |-> FALSE, loadCalls |-> 0, outcome |-> "returned",
          tables |-> old, filesRead |-> {}]
    ELSE IF first.outcome = "returned"
    THEN [sawNone |-> TRUE, loadCalls |-> 1, outcome |-> "returned",
          tables |-> first.tables, filesRead |-> first.filesRead]
    ELSE [sawNone |-> TRUE, loadCalls |-> 2, outcome |-> second.outcome,
          tables |-> second.tables,
          filesRead |-> first.filesRead \cup second.filesRead]

\* `first` is the call made when a needed table is None, the second call is
\* made from the except branch on the globals the first one left
PrepareFrom(sawNone, first, dir, files, d, old, n) ==
    PrepareResult(sawNone, first,
                  download_and_load_data(dir, files, d, first.tables, n + 2), old)

Prepare(need, dir, files, d, old, n) ==
    PrepareFrom(\E t \in need : IsNone(old[t]),
                download_and_load_data(dir, files, d, old, n + 1),
                dir, files, d, old, n)

\* a faulty variant of checked_tables: only the ratings table is tested
checked_tables_RatingsOnly(op) == {"ratings"}

\* the tables an analysis tests for None after get_data()
checked_tables(op) ==
    CASE op = "analyze_mean_age_by_occupation" -> {"users"}
      [] op = "analyze_top_rated_movies" -> {"ratings", "movies"}
      [] op = "analyze_top_genres_by_occupation_age" -> {"ratings", "users", "movie_genres"}
      [] op = "find_similar_movies" -> {"ratings", "movies"}

\* the tables the body of an analysis computes on
used_tables(op) ==
    CASE op = "analyze_mean_age_by_occupation" -> {"users"}
      [] op = "analyze_top_rated_movies" -> {"ratings", "movies"}
      [] op = "analyze_top_genres_by_occupation_age" -> {"ratings", "users", "movie_genres"}
      [] op = "find_similar_movies" -> {"ratings", "movies"}

\* the body of an analysis on the tables t that get_data() returned
Compute(op, args, t) ==
    CASE op = "analyze_mean_age_by_occupation" ->
            [outcome |-> "returned", result |-> mean_age_results(t.users_df)]
      [] op = "analyze_top_rated_movies" ->
            top_rated_results(t.ratings_df, t.movies_df, args.min_ratings, args.top_n)
      [] op = "analyze_top_genres_by_occupation_age" ->
            top_genres_results(t.ratings_df, t.users_df, t.movie_genres_df)
      [] op = "find_similar_movies" ->
            LET r == similar_movies_results(t.ratings_df, t.movies_df, args.target_movie,
                        args.similarity_threshold, args.cooccurrence_threshold, args.top_n,
                        fpError)
            IN [outcome |-> r.outcome, result |-> r.result]

TopRatedArgs(min_ratings, top_n) ==
    [NoArgs EXCEPT !.min_ratings = min_ratings, !.top_n = top_n]

SimilarArgs(target_movie, similarity_threshold, cooccurrence_threshold, top_n) ==
    [NoArgs EXCEPT !.target_movie = target_movie, !.top_n = top_n,
                   !.similarity_threshold = similarity_threshold,
                   !.cooccurrence_threshold = cooccurrence_threshold]

\* one call of an analysis in a process whose globals are `old`: p is what
\* its head did, r what its body did
AnalysisRecord(p, r) ==
    [sawNone |-> p.sawNone, loadCalls |-> p.loadCalls, filesRead |-> p.filesRead,
     loaded |-> p.outcome, tables |-> p.tables,
     outcome |-> r.outcome, result |-> r.result]

AnalysisBody(op, args, p) ==
    AnalysisRecord(p, IF p.outcome = "raised"
                      THEN [outcome |-> "raised", result |-> <<>>]
                      ELSE Compute(op, args, get_data(p.tables)))

AnalysisCall(op, args, dir, files, d, old, n) ==
    AnalysisBody(op, args, Prepare(checked_tables(op), dir, files, d, old, n))

\* the call c of an analysis, made by the process of the model
AnalysisEffect(op, args, c) ==
    /\ loads + c.loadCalls <= MaxLoads
    /\ SetGlobals(c.tables)
    /\ loads' = loads + c.loadCalls
    /\ lastLoad' = IF c.loadCalls = 0 THEN lastLoad ELSE c.loaded
    /\ lastCall' = Call(op, args, c.sawNone, c.loadCalls, c.filesRead,
                        c.outcome, c.result)
    /\ UNCHANGED dataVars

Analysis(op, args) ==
    AnalysisEffect(op, args,
                   AnalysisCall(op, args, dirExists, present, disk, Globals, loads))

\* ----------------------------------------------------------------- actions
\* download_and_load_data()
LoadEffect(r) ==
    /\ SetGlobals(r.tables)
    /\ loads' = loads + 1
    /\ lastLoad' = r.outcome
    /\ lastCall' = Call("download_and_load_data", NoArgs, FALSE, 1, r.filesRead,
                        r.outcome, <<>>)
    /\ UNCHANGED dataVars

Load ==
    /\ loads < MaxLoads
    /\ LoadEffect(download_and_load_data(dirExists, present, disk, Globals, loads + 1))
    /\ UNCHANGED <<dagVars, thrVars>>

\* analyze_mean_age_by_occupation()
AnalyzeMeanAge ==
    /\ Analysis("analyze_mean_age_by_occupation", NoArgs)
    /\ UNCHANGED <<dagVars, thrVars>>

\* analyze_top_rated_movies(min_ratings, top_n)
AnalyzeTopRated(min_ratings, top_n) ==
    /\ Analysis("analyze_top_rated_movies", TopRatedArgs(min_ratings, top_n))
    /\ UNCHANGED <<dagVars, thrVars>>

\* analyze_top_genres_by_occupation_age()
AnalyzeTopGenres ==
    /\ Analysis("analyze_top_genres_by_occupation_age", NoArgs)
    /\ UNCHANGED <<dagVars, thrVars>>

\* find_similar_movies(target_movie, similarity_threshold, cooccurrence_threshold, top_n)
FindSimilar(target_movie, similarity_threshold, cooccurrence_threshold, top_n) ==
    /\ Analysis("find_similar_movies",
                SimilarArgs(target_movie, similarity_threshold, cooccurrence_threshold,
                            top_n))
    /\ UNCHANGED <<dagVars, thrVars>>

\* the environment: a data file or the directory disappears or comes back,
\* the files are replaced by another dataset
MaxMissing == 1

Missing == (DataFiles \ present) \cup (IF dirExists THEN {} ELSE {"dir"})

RemoveFile(f) ==
    /\ f \in present
    /\ Cardinality(Missing) < MaxMissing
    /\ present' = present \ {f}
    /\ UNCHANGED <<dirExists, disk, fpError, dbVars, procVars, dagVars, thrVars>>

RestoreFile(f) ==
    /\ f \notin present
    /\ present' = present \cup {f}
    /\ UNCHANGED <<dirExists, disk, fpError, dbVars, procVars, dagVars, thrVars>>

RemoveDir ==
    /\ dirExists
    /\ Cardinality(Missing) < MaxMissing
    /\ dirExists' = FALSE
    /\ UNCHANGED <<present, disk, fpError, dbVars, procVars, dagVars, thrVars>>

RestoreDir ==
    /\ ~dirExists
    /\ dirExists' = TRUE
    /\ UNCHANGED <<present, disk, fpError, dbVars, procVars, dagVars, thrVars>>

ReplaceDataset(d) ==
    /\ d # disk
    /\ disk' = d
    /\ UNCHANGED <<dirExists, present, fpError, dbVars, procVars, dagVars, thrVars>>

\* ------------------------------------------------------- the results store
\* DatabaseManager.store_movielens_results: one manager object, its connection
\* and the committed content of the movielens tables of the warehouse.  A
\* table is the sequence of its rows; `key` is the natural key of a row (the
\* columns of its UNIQUE constraint).
EmptyDb ==
    [mean_age |-> <<>>, top_rated |-> <<>>, top_genres |-> <<>>, similar |-> <<>>,
     runs |-> <<>>]

\* a faulty variant of Upsert: a plain INSERT
Upsert_Insert(table, row) == Append(table, row)

\* INSERT ... ON CONFLICT (key) DO UPDATE SET <every other column>
Upsert(table, row) ==
    IF \E i \in 1..Len(table) : table[i].key = row.key
    THEN [i \in 1..Len(table) |-> IF table[i].key = row.key THEN row ELSE table[i]]
    ELSE Append(table, row)

\* the statements of one loop, executed in the order of the list
RECURSIVE UpsertAll(_, _)
UpsertAll(table, rows) ==
    IF rows = <<>> THEN table
    ELSE UpsertAll(Upsert(table, Head(rows)), Tail(rows))

\* a value given in units of 1/from, as a NUMERIC column of unit 1/to holds it
\* (PostgreSQL rounds to the scale of the column, halves away from zero)
ToNumeric(value, from, to) ==
    LET n == IF value < 0 THEN 0 - value * to ELSE value * to
        q == IF 2 * (n % from) >= from THEN (n \div from) + 1 ELSE n \div from
    IN IF value < 0 THEN 0 - q ELSE q

\* the scale of the columns similarity_score and correlation: DECIMAL(6,4)
SimilarityColumnScale == 10000

\* the parameters of the four INSERT statements
MeanAgeRow(result) ==
    [key |-> <<result.occupation>>,
     mean_age |-> ToNumeric(result.mean_age, 100, 100),
     user_count |-> result.user_count,
     std_dev |-> ToNumeric(result.std_dev, 100, 100),
     min_age |-> result.min_age,
     max_age |-> result.max_age]

TopRatedRow(result) ==
    [key |-> <<result.movie_id>>,
     title |-> result.title,
     avg_rating |-> ToNumeric(result.avg_rating, 1000, 1000),
     rating_count |-> result.rating_count,
     rating_std |-> ToNumeric(result.rating_std, 1000, 1000),
     release_date |-> result.release_date]

TopGenreRow(result, genre_data, i) ==
    [key |-> <<result.occupation, result.age_group, genre_data.genre.name>>,
     avg_rating |-> ToNumeric(genre_data.avg_rating, 1000, 1000),
     rating_count |-> genre_data.rating_count,
     genre_rank |-> i,
     total_users |-> result.total_users]

SimilarRow(result, i) ==
    [key |-> <<"Usual Suspects, The (1995)", result.movie_id>>,
     similar_movie_title |-> result.title,
     similarity_score |-> ToNumeric(result.similarity_score, 2 * CorrScale,
                                    SimilarityColumnScale),
     cooccurrence_count |-> result.cooccurrence_count,
     correlation |-> ToNumeric(result.correlation, CorrScale, SimilarityColumnScale),
     similarity_rank |-> i,
     release_date |-> result.release_date]

\* for i, genre_data in enumerate(result['top_genres'][:3])
TopGenreRows(results) ==
    Flatten([k \in 1..Len(results) |->
        [i \in 1..Min(3, Len(results[k].top_genres)) |->
            TopGenreRow(results[k], results[k].top_genres[i], i)]])

\* the row of movielens_pipeline_runs
PipelineRun(results, stored_count) ==
    [total_results |-> stored_count,
     mean_age_count |-> Len(results.mean_age_by_occupation),
     top_movies_count |-> Len(results.top_rated_movies),
     genre_combinations_count |-> Len(results.top_genres_by_occupation_age),
     similar_movies_count |-> Len(results.similar_movies),
     status |-> "success"]

\* stored_count: one per executed INSERT of the four loops
stored_count(results) ==
    Len(results.mean_age_by_occupation) + Len(results.top_rated_movies)
    + Len(TopGenreRows(results.top_genres_by_occupation_age))
    + Len(results.similar_movies)

\* a parameter the server rejects: psycopg2 passes a Python tuple as a record,
\* which is not a value of the column genre VARCHAR(50)
StatementRejected(results) ==
    \E k \in 1..Len(results.top_genres_by_occupation_age) :
        \E i \in 1..Min(3, Len(results.top_genres_by_occupation_age[k].top_genres)) :
            results.top_genres_by_occupation_age[k].top_genres[i].genre.tuple

\* the tables after the statements of a call that commits
Stored(old, results) ==
    [mean_age |-> UpsertAll(old.mean_age,
                      [k \in 1..Len(results.mean_age_by_occupation) |->
                          MeanAgeRow(results.mean_age_by_occupation[k])]),
     top_rated |-> UpsertAll(old.top_rated,
                      [k \in 1..Len(results.top_rated_movies) |->
                          TopRatedRow(results.top_rated_movies[k])]),
     top_genres |-> UpsertAll(old.top_genres,
                      TopGenreRows(results.top_genres_by_occupation_age)),
     similar |-> UpsertAll(old.similar,
                      [k \in 1..Len(results.similar_movies) |->
                          SimilarRow(results.similar_movies[k], k)]),
     runs |-> Append(old.runs, PipelineRun(results, stored_count(results)))]

\* a faulty variant of store_movielens_results: the connection commits every
\* statement as it is executed, so the rows of a failing call stay
store_movielens_results_Autocommit(conn, old, results, fault) ==
    IF conn # "open"
    THEN [outcome |-> "raised", rollback |-> FALSE, db |-> old, count |-> 0]
    ELSE IF fault # "none" \/ StatementRejected(results)
    THEN [outcome |-> "raised", rollback |-> TRUE,
          db |-> [Stored(old, results) EXCEPT !.runs = old.runs], count |-> 0]
    ELSE [outcome |-> "returned", rollback |-> FALSE, db |-> Stored(old, results),
          count |-> stored_count(results)]

\* store_movielens_results on the connection `conn` ("none": connect() was not
\* called or failed; "open"; "closed": disconnect() was called) and the
\* committed tables `old`.  fault is what the server does to the call: "none",
\* or an error at a statement or at the commit.
store_movielens_results(conn, old, results, fault) ==
    IF conn = "none"
    THEN [outcome |-> "raised", rollback |-> FALSE, db |-> old, count |-> 0]
    ELSE IF conn = "closed"
    THEN [outcome |-> "raised", rollback |-> FALSE, db |-> old, count |-> 0]
    ELSE IF fault # "none" \/ StatementRejected(results)
    THEN [outcome |-> "raised", rollback |-> TRUE, db |-> old, count |-> 0]
    ELSE [outcome |-> "returned", rollback |-> FALSE, db |-> Stored(old, results),
          count |-> stored_count(results)]

Faults == {"none", "statement", "commit"}

NoResults ==
    [mean_age_by_occupation |-> <<>>, top_rated_movies |-> <<>>,
     top_genres_by_occupation_age |-> <<>>, similar_movies |-> <<>>]

\* the most recent store_movielens_results call: its serial number, the
\* results passed, the title of the movie the similar movies were computed
\* for, the fault, how it ended and what it returned
NoStore ==
    [n |-> 0, results |-> NoResults, target |-> "", fault |-> "none",
     outcome |-> "none", rollback |-> FALSE, count |-> 0]

MaxStores == 2

DbInit ==
    /\ db = EmptyDb
    /\ connection = "none"
    /\ lastStore = NoStore

\* DatabaseManager.connect(): psycopg2.connect succeeds or raises
Connect(ok) ==
    /\ connection' = IF ok THEN "open" ELSE connection
    /\ UNCHANGED <<db, lastStore>>
    /\ UNCHANGED <<dirExists, present, disk, fpError, procVars, dagVars, thrVars>>

\* DatabaseManager.disconnect()
Disconnect ==
    /\ connection # "none"
    /\ connection' = "closed"
    /\ UNCHANGED <<db, lastStore>>
    /\ UNCHANGED <<dirExists, present, disk, fpError, procVars, dagVars, thrVars>>

StoreEffect(input, fault, r) ==
    /\ db' = r.db
    /\ lastStore' = [n |-> lastStore.n + 1, results |-> input.results,
                     target |-> input.target, fault |-> fault,
                     outcome |-> r.outcome, rollback |-> r.rollback,
                     count |-> r.count]
    /\ UNCHANGED connection

\* db_manager.store_movielens_results(results)
Store(input, fault) ==
    /\ lastStore.n < MaxStores
    /\ StoreEffect(input, fault,
                   store_movielens_results(connection, db, input.results, fault))
    /\ UNCHANGED <<dirExists, present, disk, fpError, procVars, dagVars, thrVars>>

\* ---------------------------------------------------- the Airflow pipeline
\* movielens_pipeline_dag: the task instances of one run (max_active_runs=1).
\* Every task instance runs its callable in a worker process of its own, where
\* the loader module is imported afresh and its globals start as None.
Tasks == {"check_pipeline1_success", "load_movielens_data", "mean_age_by_occupation",
          "top_rated_movies", "top_genres_by_occupation_age", "similar_movies_analysis",
          "send_success_alert"}

AnalysisTasks == {"mean_age_by_occupation", "top_rated_movies",
                  "top_genres_by_occupation_age", "similar_movies_analysis"}

retries == 2

\* the day of this run and the working day before it
logical_date == "2025-06-24"

RunDates == {"2025-06-23", logical_date}

DagRun(date, state) == [execution_date |-> date, state |-> state]

\* a faulty variant of Upstream: the analyses follow the check, not the load
Upstream_AnalysesAfterCheck(t) ==
    IF t = "check_pipeline1_success" THEN {}
    ELSE IF t = "load_movielens_data" \/ t \in AnalysisTasks
    THEN {"check_pipeline1_success"}
    ELSE AnalysisTasks

\* check >> load >> [the four analyses] >> success_alert
Upstream(t) ==
    IF t = "check_pipeline1_success" THEN {}
    ELSE IF t = "load_movielens_data" THEN {"check_pipeline1_success"}
    ELSE IF t \in AnalysisTasks THEN {"load_movielens_data"}
    ELSE AnalysisTasks

\* the analysis each analysis task calls, and its arguments
TaskOp(t) ==
    CASE t = "mean_age_by_occupation" -> "analyze_mean_age_by_occupation"
      [] t = "top_rated_movies" -> "analyze_top_rated_movies"
      [] t = "top_genres_by_occupation_age" -> "analyze_top_genres_by_occupation_age"
      [] t = "similar_movies_analysis" -> "find_similar_movies"

TaskArgs(t) ==
    CASE t = "top_rated_movies" -> TopRatedArgs(35, 20)
      [] t = "similar_movies_analysis" ->
            SimilarArgs("Usual Suspects, The (1995)", 95, 50, 10)
      [] OTHER -> NoArgs

NoneTables == Tables(None, None, None, None, None, None)

NoXCom == [pushed |-> FALSE, value |-> <<>>]

\* a faulty variant of check_pipeline1_success: the date is not compared
check_pipeline1_success_AnyDay(runs) ==
    IF \E run \in runs : run.state = "success"
    THEN [outcome |-> "returned", xcom |-> NoXCom]
    ELSE [outcome |-> "raised", xcom |-> NoXCom]

\* check_pipeline1_success(**context)
check_pipeline1_success(runs) ==
    LET today_runs == { run \in runs : run.state = "success" /\ run.execution_date = logical_date }
    IN IF today_runs # {} THEN [outcome |-> "returned", xcom |-> NoXCom]
       ELSE [outcome |-> "raised", xcom |-> NoXCom]

\* load_movielens_data(**context)
\* what a task callable does with the outcome of the function it calls: it
\* pushes the value and returns, or lets the exception through
TaskResult(outcome, value) ==
    IF outcome = "returned"
    THEN [outcome |-> "returned", xcom |-> [pushed |-> TRUE, value |-> value]]
    ELSE [outcome |-> "raised", xcom |-> NoXCom]

LoadTaskResult(r) == TaskResult(r.outcome, r.info)

AnalysisTaskResult(c) == TaskResult(c.outcome, c.result)

load_movielens_data(dir, files, d) ==
    LoadTaskResult(download_and_load_data(dir, files, d, NoneTables, 1))

\* task_mean_age_by_occupation, task_top_rated_movies,
\* task_top_genres_by_occupation_age, task_similar_movies
analysis_task(t, dir, files, d) ==
    AnalysisTaskResult(AnalysisCall(TaskOp(t), TaskArgs(t), dir, files, d, NoneTables, 0))

\* send_success_alert(**context): every exception is caught
send_success_alert == [outcome |-> "returned", xcom |-> NoXCom]

python_callable(t) ==
    CASE t = "check_pipeline1_success" -> check_pipeline1_success(dagRuns)
      [] t = "load_movielens_data" -> load_movielens_data(dirExists, present, disk)
      [] t \in AnalysisTasks -> analysis_task(t, dirExists, present, disk)
      [] t = "send_success_alert" -> send_success_alert

\* a faulty variant of AllSuccess: an analysis task also waits for every
\* analysis task that has started to succeed
AllSuccess_Siblings(t) ==
    /\ \A u \in Upstream(t) : taskState[u] = "success"
    /\ t \in AnalysisTasks =>
          \A u \in AnalysisTasks \ {t} : taskState[u] \in {"none", "success"}

\* trigger rule all_success: every upstream task instance succeeded
AllSuccess(t) == \A u \in Upstream(t) : taskState[u] = "success"

\* the scheduler queues a task instance whose upstream tasks all succeeded
StartTask(t) ==
    /\ taskState[t] = "none"
    /\ AllSuccess(t)
    /\ taskState' = [taskState EXCEPT ![t] = "running"]
    /\ tries' = [tries EXCEPT ![t] = 1]
    /\ UNCHANGED <<dataVars, procVars, xcom, dagRuns, thrVars>>

\* a task instance that is up for retry runs again after retry_delay
RetryTask(t) ==
    /\ taskState[t] = "up_for_retry"
    /\ taskState' = [taskState EXCEPT ![t] = "running"]
    /\ tries' = [tries EXCEPT ![t] = @ + 1]
    /\ UNCHANGED <<dataVars, procVars, xcom, dagRuns, thrVars>>

\* the callable of a running task instance returns or raises
TaskEnds(t, r) ==
    /\ taskState' = [taskState EXCEPT ![t] =
          IF r.outcome = "returned" THEN "success"
          ELSE IF tries[t] <= retries THEN "up_for_retry" ELSE "failed"]
    /\ xcom' = [xcom EXCEPT ![t] = r.xcom]

FinishTask(t) ==
    /\ taskState[t] = "running"
    /\ TaskEnds(t, python_callable(t))
    /\ UNCHANGED <<dataVars, procVars, tries, dagRuns, thrVars>>

\* a task instance below a failed one is never run
UpstreamFailed(t) ==
    /\ taskState[t] = "none"
    /\ \E u \in Upstream(t) : taskState[u] \in {"failed", "upstream_failed"}
    /\ taskState' = [taskState EXCEPT ![t] = "upstream_failed"]
    /\ UNCHANGED <<dataVars, procVars, tries, xcom, dagRuns, thrVars>>

MaxNewsRuns == 1

NewsRuns == { DagRun("2025-06-23", "success"), DagRun(logical_date, "failed"),
              DagRun(logical_date, "success") }

\* a run of news_pipeline_dag ends
NewsPipelineRun(run) ==
    /\ run \notin dagRuns
    /\ Cardinality(dagRuns) < MaxNewsRuns
    /\ dagRuns' = dagRuns \cup {run}
    /\ UNCHANGED <<dataVars, procVars, taskState, tries, xcom, thrVars>>

DagInit ==
    /\ taskState = [t \in Tasks |-> "none"]
    /\ tries = [t \in Tasks |-> 0]
    /\ xcom = [t \in Tasks |-> NoXCom]
    /\ dagRuns = {}

\* ------------------------------------------------------ concurrent callers
\* One process in which a thread calls download_and_load_data() while other
\* threads call analyses.  A step of a thread is one access to a module global
\* (one assignment of lines 266-271, one name of the return of get_data) with
\* the thread-local work that follows it; the interpreter may switch threads
\* between any two of them.
Analysts == {"analyst1", "analyst2"}

Threads == {"loader"} \cup Analysts

\* the order in which download_and_load_data assigns the globals
publish_order == <<"ratings", "users", "movies", "genres", "occupations", "movie_genres">>

\* the order in which get_data reads them
get_data_order == <<"ratings", "users", "movies", "genres", "movie_genres">>

NoLocals == [t \in Range(get_data_order) |-> None]

\* the tables the threads build are told apart from the tables built before
\* the threads started (object 1), not from each other: every call reads the
\* same files and builds tables with the same rows
ThreadObject == 2

\* the tuple get_data returned to a thread, from the values it read
AsData(local) ==
    [ratings_df |-> local["ratings"], users_df |-> local["users"],
     movies_df |-> local["movies"], genres_df |-> local["genres"],
     movie_genres_df |-> local["movie_genres"]]

IdleThread ==
    [op |-> "none", args |-> NoArgs, pc |-> "idle", k |-> 0, local |-> NoLocals,
     built |-> NoneTables, statsRaise |-> FALSE, loadCalls |-> 0,
     usedNone |-> FALSE, outcome |-> "none", result |-> <<>>]

\* the arguments the analyses are called with in the threads
ConcArgs(op) ==
    CASE op = "analyze_top_rated_movies" -> TopRatedArgs(1, 2)
      [] op = "find_similar_movies" -> SimilarArgs("Usual Suspects, The (1995)", 50, 2, 2)
      [] OTHER -> NoArgs

\* where a thread goes when its download_and_load_data() call raised: the
\* loader thread ends; an analysis calls it once more from its except branch,
\* and ends when that call raises too
LoadRaised(rec) ==
    IF rec.op # "download_and_load_data" /\ rec.loadCalls = 1
    THEN [rec EXCEPT !.pc = "load"]
    ELSE [rec EXCEPT !.pc = "done", !.k = 0, !.built = NoneTables, !.outcome = "raised"]

\* ... and when it returned: an analysis calls get_data() again
LoadReturned(rec) ==
    IF rec.op = "download_and_load_data"
    THEN [rec EXCEPT !.pc = "done", !.k = 0, !.built = NoneTables, !.outcome = "returned"]
    ELSE [rec EXCEPT !.pc = "get_data", !.k = 1, !.built = NoneTables]

AssignGlobal(name, table) ==
    /\ RATINGS_DF' = IF name = "ratings" THEN table ELSE RATINGS_DF
    /\ USERS_DF' = IF name = "users" THEN table ELSE USERS_DF
    /\ MOVIES_DF' = IF name = "movies" THEN table ELSE MOVIES_DF
    /\ GENRES_DF' = IF name = "genres" THEN table ELSE GENRES_DF
    /\ OCCUPATIONS_DF' = IF name = "occupations" THEN table ELSE OCCUPATIONS_DF
    /\ MOVIE_GENRES_DF' = IF name = "movie_genres" THEN table ELSE MOVIE_GENRES_DF

\* a thread calls download_and_load_data()
CallLoader ==
    /\ thread["loader"].pc = "idle"
    /\ thread' = [thread EXCEPT !["loader"] =
          [IdleThread EXCEPT !.op = "download_and_load_data", !.pc = "load"]]
    /\ UNCHANGED <<dataVars, procVars, dagVars>>

\* a thread calls an analysis
CallAnalysis(th, op) ==
    /\ thread[th].pc = "idle"
    /\ thread' = [thread EXCEPT ![th] =
          [IdleThread EXCEPT !.op = op, !.args = ConcArgs(op), !.pc = "get_data", !.k = 1]]
    /\ UNCHANGED <<dataVars, procVars, dagVars>>

\* get_data(): the next global of the returned tuple is read; after the last
\* one the analysis tests the tables it needs for None
GetDataRead(th) ==
    LET rec == thread[th]
        name == get_data_order[rec.k]
        local == [rec.local EXCEPT ![name] = Globals[name]]
        sawNone == \E t \in checked_tables(rec.op) : IsNone(local[t])
    IN /\ rec.pc = "get_data"
       /\ thread' = [thread EXCEPT ![th] =
             IF rec.k < Len(get_data_order)
             THEN [rec EXCEPT !.local = local, !.k = rec.k + 1]
             ELSE IF rec.loadCalls = 0 /\ sawNone
             THEN [rec EXCEPT !.local = local, !.pc = "load"]
             ELSE [rec EXCEPT !.local = local, !.pc = "compute"]]
       /\ UNCHANGED <<dataVars, procVars, dagVars>>

\* download_and_load_data() up to line 262: the loader is constructed, the
\* files are read and the tables are built
Constructed(rec, r) ==
    IF r.step \in {"init", "read"} THEN LoadRaised(rec)
    ELSE [rec EXCEPT !.pc = "publish", !.k = 1, !.built = r.tables,
                     !.statsRaise = (r.outcome = "raised")]

ConstructAndRead(th) ==
    /\ thread[th].pc = "load"
    /\ loads' = loads + 1
    /\ thread' = [thread EXCEPT ![th] =
          Constructed([thread[th] EXCEPT !.loadCalls = @ + 1],
                      download_and_load_data(dirExists, present, disk, Globals,
                                             ThreadObject))]
    /\ UNCHANGED <<dataVars, globalVars, lastLoad, lastCall, dagVars>>

\* one assignment of lines 266-271; after the last one the statistics are
\* computed and the call returns or raises
PublishTable(th) ==
    LET rec == thread[th]
        name == publish_order[rec.k]
    IN /\ rec.pc = "publish"
       /\ AssignGlobal(name, rec.built[name])
       /\ thread' = [thread EXCEPT ![th] =
             IF rec.k < Len(publish_order) THEN [rec EXCEPT !.k = rec.k + 1]
             ELSE IF rec.statsRaise THEN LoadRaised(rec)
             ELSE LoadReturned(rec)]
       /\ UNCHANGED <<dataVars, loads, lastLoad, lastCall, dagVars>>

\* the body of the analysis on the tables the thread holds; an attribute
\* access on None raises
Computed(rec, usedNone, r) ==
    [rec EXCEPT !.pc = "done", !.k = 0, !.local = NoLocals, !.built = NoneTables,
                !.usedNone = usedNone, !.outcome = r.outcome, !.result = r.result]

ComputeOn(rec, usedNone) ==
    Computed(rec, usedNone,
             IF usedNone THEN [outcome |-> "raised", result |-> <<>>]
             ELSE Compute(rec.op, rec.args, AsData(rec.local)))

ComputeResult(th) ==
    /\ thread[th].pc = "compute"
    /\ thread' = [thread EXCEPT ![th] =
          ComputeOn(thread[th],
                    \E t \in used_tables(thread[th].op) : IsNone(thread[th].local[t]))]
    /\ UNCHANGED <<dataVars, procVars, dagVars>>

ThreadInit == thread = [th \in Threads |-> IdleThread]

\* the search strings and thresholds of the process model
SearchStrings == {"Usual Suspects, The (1995)", "toy story", "Casablanca"}

\* the rounding errors of a build: a sign per candidate movie; the same sign
\* for every movie in FpUniform
FpMovieIds == {1, 2, 3, 4}

FpErrors == [FpMovieIds -> {-1, 0, 1}]

FpUniform == {[m \in FpMovieIds |-> e] : e \in {-1, 0, 1}}

NoFpError == [m \in FpMovieIds |-> 0]

GlobalsAre(t) ==
    /\ RATINGS_DF = t.ratings
    /\ USERS_DF = t.users
    /\ MOVIES_DF = t.movies
    /\ GENRES_DF = t.genres
    /\ OCCUPATIONS_DF = t.occupations
    /\ MOVIE_GENRES_DF = t.movie_genres

\* the module has just been imported
Imported ==
    /\ GlobalsAre(NoneTables)
    /\ loads = 0
    /\ lastLoad = "none"
    /\ lastCall = NoCall

Init ==
    /\ dirExists = TRUE
    /\ present = DataFiles
    /\ disk \in SampleDatasets
    /\ fpError \in FpUniform
    /\ Imported
    /\ DagInit
    /\ DbInit
    /\ ThreadInit

Next ==
    \/ Load
    \/ AnalyzeMeanAge
    \/ \E m \in 1..2 : AnalyzeTopRated(m, MaxTopN)
    \/ AnalyzeTopGenres
    \/ \E t \in SearchStrings : FindSimilar(t, 50, 2, MaxTopN)
    \/ \E f \in DataFiles : RemoveFile(f)
    \/ \E f \in DataFiles : RestoreFile(f)
    \/ RemoveDir
    \/ RestoreDir
    \/ \E d \in SampleDatasets \cup {EmptyUsersDataset} : ReplaceDataset(d)

Spec == Init /\ [][Next]_vars

\* ---------------------------------------------- the statistics on many tables
\* SpecStats runs the two aggregations on a loaded dataset, for every Users
\* table of NumUsers users over AgeChoices x OccupationChoices (with fixed
\* ratings) and for every ratings table in which each of NumRaters users rates
\* each movie of BaseMovies with a score of ScoreChoices or not at all (with
\* fixed users), and on RoundingTieDataset.  Its initial states are the states download_and_load_data
\* leaves when it returns.
NumRaters == 2

AgeChoices == {20, 45}

OccupationChoices == {"doctor", "engineer"}

ScoreChoices == {1, 5}

UserIds == 1..NumUsers

RaterIds == 1..NumRaters

BaseUsers ==
    [i \in 1..Max(NumUsers, NumRaters) |->
        User(i, 20 + i, "M", IF i = 1 THEN "doctor" ELSE "engineer")]

BaseRatings == [i \in UserIds |-> Rating(i, 1, 3 + (i % 3))]

UserVariants ==
    { Dataset(BaseRatings,
              [i \in UserIds |-> User(i, age[i], "M", occ[i])],
              BaseMovies) :
        age \in [UserIds -> AgeChoices], occ \in [UserIds -> OccupationChoices] }

\* the rows of a ratings file: user by user, movie by movie; score 0 = no row
RatingRows(score) ==
    Flatten([u \in RaterIds |->
        Flatten([m \in 1..Len(BaseMovies) |->
            IF score[<<u, m>>] = 0 THEN <<>>
            ELSE << Rating(u, BaseMovies[m].movie_id, score[<<u, m>>]) >>])])

RatingVariants ==
    { Dataset(RatingRows(score), BaseUsers, BaseMovies) :
        score \in [RaterIds \X (1..Len(BaseMovies)) -> {0} \cup ScoreChoices] }

\* the state in which download_and_load_data() has just returned for dataset d
Loaded(d) ==
    /\ dirExists = TRUE
    /\ present = DataFiles
    /\ disk = d
    /\ GlobalsAre(Built(d, 1))
    /\ loads = 1
    /\ lastLoad = "returned"
    /\ lastCall = Call("download_and_load_data", NoArgs, FALSE, 1, DataFiles,
                       "returned", <<>>)
    /\ DagInit
    /\ DbInit
    /\ ThreadInit

\* (the aggregations compute no correlation: fpError plays no part)
InitStats ==
    /\ fpError = NoFpError
    /\ \E d \in UserVariants \cup RatingVariants \cup {RoundingTieDataset} : Loaded(d)

NextStats ==
    \/ AnalyzeMeanAge
    \/ \E m \in 0..MaxMinRatings, n \in 0..MaxTopN : AnalyzeTopRated(m, n)

SpecStats == InitStats /\ [][NextStats]_vars

\* ----------------------------------------------------------- one DAG run
\* SpecDag: one run of movielens_pipeline_dag over a fixed directory (complete
\* or without u.item), while runs of news_pipeline_dag end
InitDag ==
    /\ dirExists = TRUE
    /\ present \in {DataFiles, DataFiles \ {"u.item"}}
    /\ disk \in SampleDatasets \cup {EmptyUsersDataset, NoTargetDataset}
    /\ fpError \in FpUniform
    /\ Imported
    /\ DagInit
    /\ DbInit
    /\ ThreadInit

NextDag ==
    \/ \E t \in Tasks : StartTask(t)
    \/ \E t \in Tasks : RetryTask(t)
    \/ \E t \in Tasks : FinishTask(t)
    \/ \E t \in Tasks : UpstreamFailed(t)
    \/ \E run \in NewsRuns : NewsPipelineRun(run)

SpecDag == InitDag /\ [][NextDag]_vars

\* --------------------------------------------------- concurrent callers
\* SpecConc: the threads against a fixed set of files that loads.  Either the
\* process has loaded the files before, and a thread loads them again while
\* two threads call analyses; or the module has just been imported, and two
\* threads call analyses (each loads by itself when it sees None), or one calls
\* an analysis while another calls download_and_load_data().  With ConcDataset
\* and the thresholds of ConcArgs no candidate's similarity equals the
\* threshold or that of another candidate, so that the rounding errors decide
\* nothing: fpError is fixed.
NotStarted(T) == [th \in Threads |-> IF th \in T THEN IdleThread
                                     ELSE [IdleThread EXCEPT !.pc = "absent"]]

InitConc ==
    /\ dirExists = TRUE
    /\ present = DataFiles
    /\ disk = ConcDataset
    /\ fpError = NoFpError
    /\ DagInit
    /\ DbInit
    /\ \/ /\ GlobalsAre(Built(disk, 1))
          /\ loads = 1
          /\ lastLoad = "returned"
          /\ lastCall = Call("download_and_load_data", NoArgs, FALSE, 1, DataFiles,
                             "returned", <<>>)
          /\ thread = NotStarted(Threads)
       \/ /\ Imported
          /\ thread \in {NotStarted(Analysts), NotStarted({"loader", "analyst1"})}

NextConc ==
    \/ CallLoader
    \/ \E th \in Analysts, op \in AnalysisOps : CallAnalysis(th, op)
    \/ \E th \in Threads : GetDataRead(th)
    \/ \E th \in Threads : ConstructAndRead(th)
    \/ \E th \in Threads : PublishTable(th)
    \/ \E th \in Threads : ComputeResult(th)

SpecConc == InitConc /\ [][NextConc]_vars

\* ------------------------------------------------------------------ claims
\* a step that is one call of an analysis (every other step of the process
\* model changes the files or leaves lastCall naming download_and_load_data)
AnalysisStep == lastCall'.op \in AnalysisOps /\ UNCHANGED dataVars

\* a step that is one call of download_and_load_data() by the caller
LoadStep == lastCall'.op = "download_and_load_data" /\ loads' = loads + 1

\* C1: an analysis called while a table it needs is still None raises at once
\* and does not call download_and_load_data itself.
C1_NotLoadedFailsFast ==
    (lastCall.op \in AnalysisOps /\ lastCall.sawNone)
        => (lastCall.outcome = "raised" /\ lastCall.loadCalls = 0)

\* C3: when the most recent download_and_load_data attempt raised, an analysis
\* called next raises and returns no result list.
C3_AnalysisFailsAfterFailedLoad ==
    [][(lastLoad = "raised" /\ AnalysisStep)
          => (lastCall'.outcome = "raised" /\ lastCall'.result = <<>>)]_vars

\* C4: with the directory or a required file absent, download_and_load_data
\* raises before it reads a file and leaves the six globals as they were
\* (whether the caller or an analysis called it).
C4_MissingFileNoPartialLoad ==
    [][((LoadStep \/ (AnalysisStep /\ lastCall'.loadCalls > 0))
            /\ (~dirExists \/ \E f \in {"u.data", "u.user", "u.item", "u.genre"} :
                                  f \notin present))
          => (/\ lastCall'.outcome = "raised"
              /\ lastCall'.filesRead = {}
              /\ UNCHANGED globalVars)]_vars

\* C4 witness: a reload with u.item absent raised, read nothing and left the
\* tables of the earlier load in place
C4_Witness ==
    /\ lastCall.op = "download_and_load_data"
    /\ lastCall.outcome = "raised"
    /\ lastCall.filesRead = {}
    /\ "u.item" \notin present
    /\ ~IsNone(RATINGS_DF)
    /\ loads = 2

\* C5: no call of an analysis changes a shared table, whether it returns or
\* raises.
C5_AnalysesLeaveTablesAlone ==
    [][AnalysisStep
          => UNCHANGED <<RATINGS_DF, USERS_DF, MOVIES_DF, GENRES_DF, MOVIE_GENRES_DF>>]_vars

\* what the tables say, counted directly from their rows
RatedMovies == {RATINGS_DF.rows[i].movie_id : i \in 1..Len(RATINGS_DF.rows)}

CountOf(m) == Cardinality({i \in 1..Len(RATINGS_DF.rows) : RATINGS_DF.rows[i].movie_id = m})

SumOf(m) ==
    SeqSum([i \in 1..Len(RATINGS_DF.rows) |->
              IF RATINGS_DF.rows[i].movie_id = m THEN RATINGS_DF.rows[i].rating ELSE 0])

Qualifying(min_ratings) == {m \in RatedMovies : CountOf(m) >= min_ratings}

OccupationsPresent == {USERS_DF.rows[i].occupation : i \in 1..Len(USERS_DF.rows)}

UsersIn(occ) == {i \in 1..Len(USERS_DF.rows) : USERS_DF.rows[i].occupation = occ}

AgeSumIn(occ) ==
    SeqSum([i \in 1..Len(USERS_DF.rows) |->
              IF USERS_DF.rows[i].occupation = occ THEN USERS_DF.rows[i].age ELSE 0])

Abs(x) == IF x < 0 THEN 0 - x ELSE x

\* v is sum/cnt rounded to the nearest 1/scale
IsRounded(v, sum, cnt, scale) == 2 * Abs(scale * sum - v * cnt) <= cnt

\* sum/cnt, rounded to thousandths (half to even), is at most a
RoundsAtMost(sum, cnt, a) ==
    \/ 2000 * sum < (2 * a + 1) * cnt
    \/ (2000 * sum = (2 * a + 1) * cnt /\ a % 2 = 0)

ReturnedTopRated ==
    lastCall.op = "analyze_top_rated_movies" /\ lastCall.outcome = "returned"

ReturnedMeanAge ==
    lastCall.op = "analyze_mean_age_by_occupation" /\ lastCall.outcome = "returned"

ResultMovies == {lastCall.result[k].movie_id : k \in 1..Len(lastCall.result)}

\* C7: every record of analyze_top_rated_movies has rating_count >=
\* min_ratings, rating_count being the number of ratings of the movie; a rated
\* movie with exactly min_ratings ratings is returned whenever top_n does not
\* cut the list.
C7_RatingCountAtLeastMin ==
    ReturnedTopRated =>
        /\ \A k \in 1..Len(lastCall.result) :
              /\ lastCall.result[k].rating_count = CountOf(lastCall.result[k].movie_id)
              /\ lastCall.result[k].rating_count >= lastCall.args.min_ratings
        /\ Cardinality(Qualifying(lastCall.args.min_ratings)) <= lastCall.args.top_n
              => \A m \in RatedMovies :
                    CountOf(m) = lastCall.args.min_ratings => m \in ResultMovies

\* C7 witness: a movie rated exactly min_ratings times was returned while a
\* movie with fewer ratings was left out
C7_Witness ==
    /\ ReturnedTopRated
    /\ lastCall.args.min_ratings >= 2
    /\ \E k \in 1..Len(lastCall.result) :
          lastCall.result[k].rating_count = lastCall.args.min_ratings
    /\ \E m \in RatedMovies : CountOf(m) < lastCall.args.min_ratings

\* the parts of C8 that do not compare a returned movie with one left out:
\* min(top_n, number of qualifying movies) records, each of a different
\* qualifying movie, in non-increasing order of avg_rating
C8_CountAndOrder ==
    /\ Len(lastCall.result)
          = Min(lastCall.args.top_n, Cardinality(Qualifying(lastCall.args.min_ratings)))
    /\ \A k \in 1..Len(lastCall.result) :
          /\ lastCall.result[k].movie_id \in Qualifying(lastCall.args.min_ratings)
          /\ \A j \in 1..Len(lastCall.result) :
                j # k => lastCall.result[j].movie_id # lastCall.result[k].movie_id
          /\ k > 1 => lastCall.result[k - 1].avg_rating >= lastCall.result[k].avg_rating

\* C8 as stated: analyze_top_rated_movies returns min(top_n, number of
\* qualifying movies) records in non-increasing order of avg_rating, and no
\* qualifying movie left out has a strictly higher mean rating (sum of its
\* ratings over their number) than a returned movie.
C8_NoLeftOutHigherMean ==
    ReturnedTopRated =>
        /\ C8_CountAndOrder
        /\ \A k \in 1..Len(lastCall.result) :
              \A m \in Qualifying(lastCall.args.min_ratings) \ ResultMovies :
                 SumOf(m) * CountOf(lastCall.result[k].movie_id)
                    <= SumOf(lastCall.result[k].movie_id) * CountOf(m)

\* C8: analyze_top_rated_movies returns min(top_n, number of qualifying movies)
\* records, each carrying the mean rating of its movie rounded to 3 decimals,
\* in non-increasing order of avg_rating, and no qualifying movie left out has
\* a mean rating that, rounded to 3 decimals, is higher than the avg_rating of
\* a returned one.
C8_TopRatedCountAndOrder ==
    ReturnedTopRated =>
        /\ C8_CountAndOrder
        /\ \A k \in 1..Len(lastCall.result) :
              LET rec == lastCall.result[k]
              IN /\ IsRounded(rec.avg_rating, SumOf(rec.movie_id), CountOf(rec.movie_id), 1000)
                 /\ \A m \in Qualifying(lastCall.args.min_ratings) \ ResultMovies :
                       RoundsAtMost(SumOf(m), CountOf(m), rec.avg_rating)

\* C8 witness: top_n cut the list, and the qualifying movie left out has the
\* same mean to 3 decimals as the returned one, which comes first in the
\* ratings' movie order
C8_Witness ==
    /\ ReturnedTopRated
    /\ lastCall.args.top_n = 1
    /\ Len(lastCall.result) = 1
    /\ \E m \in Qualifying(lastCall.args.min_ratings) \ ResultMovies :
          /\ m > lastCall.result[1].movie_id
          /\ IsRounded(lastCall.result[1].avg_rating, SumOf(m), CountOf(m), 1000)

\* the parts of C9 that do not concern the value of mean_age: one record per
\* occupation present, with the group's size, smallest and largest age
C9_GroupsCountMinMax ==
    /\ Len(lastCall.result) = Cardinality(OccupationsPresent)
    /\ {lastCall.result[k].occupation : k \in 1..Len(lastCall.result)} = OccupationsPresent
    /\ \A k \in 1..Len(lastCall.result) :
          LET rec == lastCall.result[k]
              grp == UsersIn(rec.occupation)
          IN /\ rec.user_count = Cardinality(grp)
             /\ \A i \in grp : rec.min_age <= USERS_DF.rows[i].age /\ USERS_DF.rows[i].age <= rec.max_age
             /\ \E i \in grp : rec.min_age = USERS_DF.rows[i].age
             /\ \E i \in grp : rec.max_age = USERS_DF.rows[i].age

\* C9 as claimed: one record per occupation present; mean_age is the
\* arithmetic mean of the group's ages (mean_age is in hundredths), user_count
\* its size, min_age and max_age its smallest and largest age.
C9_MeanAgeIsExactMean ==
    ReturnedMeanAge =>
        /\ C9_GroupsCountMinMax
        /\ \A k \in 1..Len(lastCall.result) :
              lastCall.result[k].mean_age * lastCall.result[k].user_count
                  = 100 * AgeSumIn(lastCall.result[k].occupation)

\* C9 as amended: mean_age is the arithmetic mean rounded to 2 decimals; the
\* rest as claimed.
C9_MeanAgeIsRoundedMean ==
    ReturnedMeanAge =>
        /\ C9_GroupsCountMinMax
        /\ \A k \in 1..Len(lastCall.result) :
              IsRounded(lastCall.result[k].mean_age,
                        AgeSumIn(lastCall.result[k].occupation),
                        lastCall.result[k].user_count, 100)

\* C9 witness: an occupation of three users whose mean age has more than two
\* decimals
C9_Witness ==
    /\ ReturnedMeanAge
    /\ \E k \in 1..Len(lastCall.result) :
          /\ lastCall.result[k].user_count = 3
          /\ (100 * AgeSumIn(lastCall.result[k].occupation)) % 3 # 0
          /\ lastCall.result[k].min_age < lastCall.result[k].max_age

\* C10: an occupation with exactly one user is reported with std_dev = 0.0,
\* a returned movie with exactly one rating with rating_std = 0.0; the
\* analyses do not raise for them and do not drop the record.
C10_SingletonStdIsZero ==
    /\ lastCall.op = "analyze_mean_age_by_occupation" =>
          /\ lastCall.outcome = "returned"
          /\ \A occ \in OccupationsPresent :
                Cardinality(UsersIn(occ)) = 1 =>
                    \E k \in 1..Len(lastCall.result) :
                        /\ lastCall.result[k].occupation = occ
                        /\ lastCall.result[k].std_dev = 0
    /\ lastCall.op = "analyze_top_rated_movies" =>
          /\ lastCall.outcome = "returned"
          /\ \A k \in 1..Len(lastCall.result) :
                lastCall.result[k].rating_count = 1 => lastCall.result[k].rating_std = 0
          /\ (/\ lastCall.args.min_ratings <= 1
              /\ Cardinality(Qualifying(lastCall.args.min_ratings)) <= lastCall.args.top_n)
                => \A m \in RatedMovies : CountOf(m) = 1 => m \in ResultMovies

\* C10 witness: a movie with a single rating was returned, with rating_std 0
C10_Witness ==
    /\ ReturnedTopRated
    /\ \E k \in 1..Len(lastCall.result) :
          /\ lastCall.result[k].rating_count = 1
          /\ lastCall.result[k].rating_std = 0
    /\ \E k \in 1..Len(lastCall.result) : lastCall.result[k].rating_count = 2


\* a task instance that has started an attempt
Started(t) == taskState[t] \in {"running", "up_for_retry", "success", "failed"}

\* C2: in every run of the pipeline an analysis task has started only when
\* load_movielens_data has succeeded, and an analysis task that has not started
\* can start as soon as the load has succeeded, whatever the states of the
\* other three analysis tasks are (no ordering among the four)
C2_AnalysesOnlyAfterLoad ==
    /\ \A t \in AnalysisTasks :
          Started(t) => taskState["load_movielens_data"] = "success"
    /\ \A t \in AnalysisTasks :
          (taskState["load_movielens_data"] = "success" /\ taskState[t] = "none")
              => ENABLED StartTask(t)

\* the load has succeeded; one analysis task is done, one is running and one
\* has not started
C2_Witness ==
    /\ taskState["load_movielens_data"] = "success"
    /\ taskState["top_rated_movies"] = "success"
    /\ taskState["similar_movies_analysis"] = "running"
    /\ taskState["mean_age_by_occupation"] = "none"

\* what an analysis returns when it runs alone on the loaded dataset
AloneResult(op) == Compute(op, ConcArgs(op), get_data(Built(disk, 1)))

\* C6: under every interleaving of the threads, an analysis that has ended has
\* not computed on a None table and has returned the result list it returns
\* when it runs alone on the loaded dataset
C6_ConcurrentAnalysesAgree ==
    \A th \in Analysts :
        thread[th].pc = "done" =>
            /\ ~thread[th].usedNone
            /\ thread[th].outcome = AloneResult(thread[th].op).outcome
            /\ thread[th].result = AloneResult(thread[th].op).result

\* download_and_load_data is part-way through publishing into a process that
\* had loaded nothing, and an analysis has returned from the tables published
\* so far without loading by itself
C6_Witness ==
    /\ thread["loader"].pc = "publish"
    /\ IsNone(MOVIE_GENRES_DF)
    /\ \E a \in Analysts :
          /\ thread[a].pc = "done"
          /\ thread[a].loadCalls = 0
          /\ thread[a].outcome = "returned"

\* the row of the Users table in which an occupation first occurs
FirstSeen(occ) ==
    CHOOSE i \in 1..Len(USERS_DF.rows) :
        /\ USERS_DF.rows[i].occupation = occ
        /\ \A j \in 1..(i - 1) : USERS_DF.rows[j].occupation # occ

\* C11: the list of analyze_mean_age_by_occupation is in non-increasing order
\* of mean_age, and two occupations with equal mean_age appear in the order in
\* which they first occur in the Users table.
C11_TiesInFirstSeenOrder ==
    ReturnedMeanAge =>
        \A j, k \in 1..Len(lastCall.result) :
            j < k =>
                /\ lastCall.result[j].mean_age >= lastCall.result[k].mean_age
                /\ lastCall.result[j].mean_age = lastCall.result[k].mean_age
                      => FirstSeen(lastCall.result[j].occupation)
                            < FirstSeen(lastCall.result[k].occupation)

\* ------------------------------------------- the genre ranking on many tables
\* SpecGenres runs analyze_top_genres_by_occupation_age on a loaded dataset:
\* for every Users table in which each of NumRaters rating users has an age of
\* AgeBoundaryChoices and an occupation of OccupationChoices (with fixed
\* ratings and one more user who rates nothing), for every ratings table in
\* which user 1 rates each movie of GenreMovies, and user 2 movies 2 and 3,
\* with a score of ScoreChoices or not at all (with fixed users), and on
\* GenreTieDataset.
AgeBoundaryChoices == {7, 19, 20, 24, 25, 34, 35, 44, 45, 73}

\* ThreeMovies and a movie none of whose genre indicators is 1
GenreMovies == ThreeMovies \o << Movie(4, "Untitled (1996)", "01-Jan-1996", {}) >>

GenreBaseRatings ==
    Flatten([i \in RaterIds |-> << Rating(i, 1, 3 + (i % 3)), Rating(i, 4, 2) >>])
        \o << Rating(1, 2, 5) >>

GenreUserVariants ==
    { Dataset(GenreBaseRatings,
              [i \in 1..(NumRaters + 1) |->
                  IF i <= NumRaters THEN User(i, age[i], "M", occ[i])
                  ELSE User(i, 30, "F", "doctor")],
              GenreMovies) :
        age \in [RaterIds -> AgeBoundaryChoices],
        occ \in [RaterIds -> OccupationChoices] }

GenreBaseUsers ==
    << User(1, 30, "M", "doctor"), User(2, 31, "F", "doctor"),
       User(3, 33, "M", "doctor"), User(4, 22, "M", "engineer") >>

GenreRatedPairs == ({1} \X {1, 2, 3, 4}) \cup ({2} \X {2, 3})

GenreRatingRows(score) ==
    Flatten([u \in 1..2 |->
        Flatten([m \in 1..4 |->
            IF <<u, m>> \notin GenreRatedPairs \/ score[<<u, m>>] = 0 THEN <<>>
            ELSE << Rating(u, m, score[<<u, m>>]) >>])])

GenreRatingVariants ==
    { Dataset(GenreRatingRows(score), GenreBaseUsers, GenreMovies) :
        score \in [GenreRatedPairs -> {0} \cup ScoreChoices] }

\* a dataset in which two genres of one segment have different mean ratings
\* that are equal to 3 decimals: 39 doctors of age 30; movie 1 (Action) has 28
\* ratings (117/28 = 4.17857...), movie 2 (Western) has 39 (163/39 =
\* 4.17948...), movie 3 (Comedy, Drama) has one rating of 5
GenreTieDataset ==
    Dataset([i \in 1..68 |->
                IF i <= 28 THEN Rating(i, 1, IF i <= 23 THEN 4 ELSE 5)
                ELSE IF i <= 67 THEN Rating(i - 28, 2, IF i <= 60 THEN 4 ELSE 5)
                ELSE Rating(1, 3, 5)],
            [i \in 1..39 |-> User(i, 30, "M", "doctor")],
            << Movie(1, "Heat (1995)", "15-Dec-1995", {"action"}),
               Movie(2, "Toy Story (1995)", "01-Jan-1995", {"western"}),
               Movie(3, "Usual Suspects, The (1995)", NaNDate, {"comedy", "drama"}) >>)

\* (the genre ranking computes no correlation: fpError plays no part)
InitGenres ==
    /\ fpError = NoFpError
    /\ \E d \in GenreUserVariants \cup GenreRatingVariants \cup {GenreTieDataset} : Loaded(d)

NextGenres == AnalyzeTopGenres

SpecGenres == InitGenres /\ [][NextGenres]_vars

\* what the tables say about the segments, counted directly from their rows
ReturnedTopGenres ==
    lastCall.op = "analyze_top_genres_by_occupation_age" /\ lastCall.outcome = "returned"

\* the age bucket of an age, by the ranges of the specification
Bucket(age) ==
    CASE age < 20 -> "Under 20"
      [] age \in 20..24 -> "20-25"
      [] age \in 25..34 -> "25-35"
      [] age \in 35..44 -> "35-45"
      [] age >= 45 -> "45+"

\* the users of a segment
SegmentUserIds(occ, ag) ==
    {USERS_DF.rows[i].user_id : i \in
        {j \in 1..Len(USERS_DF.rows) : /\ USERS_DF.rows[j].occupation = occ
                                       /\ Bucket(USERS_DF.rows[j].age) = ag}}

\* the genre-membership rows of genre g that a rating row pairs with, when the
\* rating's user is in the segment
PairsOfRating(i, occ, ag, g) ==
    IF RATINGS_DF.rows[i].user_id \in SegmentUserIds(occ, ag)
    THEN {j \in 1..Len(MOVIE_GENRES_DF.rows) :
             /\ MOVIE_GENRES_DF.rows[j].movie_id = RATINGS_DF.rows[i].movie_id
             /\ MOVIE_GENRES_DF.rows[j].genre = g}
    ELSE {}

\* the number of (rating, genre-membership) pairs of a segment and genre, and
\* the sum of their ratings
PairCount(occ, ag, g) ==
    SeqSum([i \in 1..Len(RATINGS_DF.rows) |-> Cardinality(PairsOfRating(i, occ, ag, g))])

PairSum(occ, ag, g) ==
    SeqSum([i \in 1..Len(RATINGS_DF.rows) |->
              RATINGS_DF.rows[i].rating * Cardinality(PairsOfRating(i, occ, ag, g))])

\* the genres rated in a segment
SegmentGenres(occ, ag) ==
    {g \in {MOVIE_GENRES_DF.rows[j].genre : j \in 1..Len(MOVIE_GENRES_DF.rows)} :
        PairCount(occ, ag, g) > 0}

\* the segments with at least one (rating, genre-membership) pair
SegmentsRated ==
    {seg \in {<<USERS_DF.rows[i].occupation, Bucket(USERS_DF.rows[i].age)>> :
                 i \in 1..Len(USERS_DF.rows)} :
        SegmentGenres(seg[1], seg[2]) # {}}

\* the genre name of an entry of top_genres (its 'genre' field is the whole
\* key of the genre_stats row)
GenreOf(entry) == entry.genre[3]

ListedGenres(rec) == {GenreOf(rec.top_genres[k]) : k \in 1..Len(rec.top_genres)}

\* the parts of C12 that do not compare a listed genre with one left out: a
\* record's top_genres holds min(3, number of genres rated in the segment)
\* entries, of pairwise distinct genres of the segment, in non-increasing
\* order of avg_rating
C12_CountAndOrder(rec) ==
    /\ Len(rec.top_genres)
          = Min(3, Cardinality(SegmentGenres(rec.occupation, rec.age_group)))
    /\ \A k \in 1..Len(rec.top_genres) :
          /\ GenreOf(rec.top_genres[k]) \in SegmentGenres(rec.occupation, rec.age_group)
          /\ \A j \in 1..Len(rec.top_genres) :
                j # k => rec.top_genres[j].genre # rec.top_genres[k].genre
          /\ k > 1 => rec.top_genres[k - 1].avg_rating >= rec.top_genres[k].avg_rating

\* C12 as stated: every record of analyze_top_genres_by_occupation_age lists
\* min(3, number of genres rated in the segment) pairwise distinct genres in
\* non-increasing order of avg_rating, and no genre of the segment that is
\* left out has a strictly higher mean rating (sum of the ratings of its pairs
\* over their number) than a listed one.
C12_NoLeftOutHigherMean ==
    ReturnedTopGenres =>
        \A r \in 1..Len(lastCall.result) :
            /\ C12_CountAndOrder(lastCall.result[r])
            /\ \A g \in SegmentGenres(lastCall.result[r].occupation,
                                      lastCall.result[r].age_group)
                          \ ListedGenres(lastCall.result[r]) :
                  \A h \in ListedGenres(lastCall.result[r]) :
                      PairSum(lastCall.result[r].occupation, lastCall.result[r].age_group, g)
                        * PairCount(lastCall.result[r].occupation, lastCall.result[r].age_group, h)
                      <= PairSum(lastCall.result[r].occupation, lastCall.result[r].age_group, h)
                        * PairCount(lastCall.result[r].occupation, lastCall.result[r].age_group, g)

\* C12: every record of analyze_top_genres_by_occupation_age lists min(3,
\* number of genres rated in the segment) pairwise distinct genres, each with
\* the mean rating of its pairs rounded to 3 decimals as avg_rating, in
\* non-increasing order of avg_rating, and no genre of the segment that is
\* left out has a mean rating that, rounded to 3 decimals, is higher than the
\* avg_rating of a listed one.
C12_TopGenresCountAndOrder ==
    ReturnedTopGenres =>
        \A r \in 1..Len(lastCall.result) :
            /\ C12_CountAndOrder(lastCall.result[r])
            /\ \A k \in 1..Len(lastCall.result[r].top_genres) :
                  LET rec == lastCall.result[r]
                      e == rec.top_genres[k]
                  IN /\ IsRounded(e.avg_rating,
                                  PairSum(rec.occupation, rec.age_group, GenreOf(e)),
                                  PairCount(rec.occupation, rec.age_group, GenreOf(e)), 1000)
                     /\ \A g \in SegmentGenres(rec.occupation, rec.age_group)
                                   \ ListedGenres(rec) :
                           RoundsAtMost(PairSum(rec.occupation, rec.age_group, g),
                                        PairCount(rec.occupation, rec.age_group, g),
                                        e.avg_rating)

\* C12 witness: a segment with more than three genres, of which one left out
\* has a lower mean than every listed one and the listed ones differ in mean
C12_Witness ==
    /\ ReturnedTopGenres
    /\ \E r \in 1..Len(lastCall.result) :
          LET rec == lastCall.result[r]
          IN /\ Cardinality(SegmentGenres(rec.occupation, rec.age_group)) > 3
             /\ Len(rec.top_genres) = 3
             /\ rec.top_genres[1].avg_rating > rec.top_genres[3].avg_rating
             /\ \E g \in SegmentGenres(rec.occupation, rec.age_group) \ ListedGenres(rec) :
                   1000 * PairSum(rec.occupation, rec.age_group, g)
                      < (rec.top_genres[3].avg_rating - 1)
                           * PairCount(rec.occupation, rec.age_group, g)

\* the rows of the Users table whose user has a (rating, genre-membership) pair
RatingUserRows ==
    {i \in 1..Len(USERS_DF.rows) :
        \E k \in 1..Len(RATINGS_DF.rows) :
            /\ RATINGS_DF.rows[k].user_id = USERS_DF.rows[i].user_id
            /\ \E j \in 1..Len(MOVIE_GENRES_DF.rows) :
                  MOVIE_GENRES_DF.rows[j].movie_id = RATINGS_DF.rows[k].movie_id}

SegmentRaters(occ, ag) ==
    {USERS_DF.rows[i].user_id : i \in
        {j \in RatingUserRows : /\ USERS_DF.rows[j].occupation = occ
                                /\ Bucket(USERS_DF.rows[j].age) = ag}}

\* C14: in every record of analyze_top_genres_by_occupation_age, total_users
\* is the number of distinct users of the Users table whose occupation and age
\* bucket are the record's, whether they rated anything or not.
C14_TotalUsersOfSegment ==
    ReturnedTopGenres =>
        \A r \in 1..Len(lastCall.result) :
            lastCall.result[r].total_users
                = Cardinality(SegmentUserIds(lastCall.result[r].occupation,
                                             lastCall.result[r].age_group))

\* C14 witness: a reported segment with a user who rated nothing, in an
\* occupation that has users of another age bucket as well
C14_Witness ==
    /\ ReturnedTopGenres
    /\ \E r \in 1..Len(lastCall.result) :
          LET rec == lastCall.result[r]
          IN /\ rec.total_users
                   > Cardinality(SegmentRaters(rec.occupation, rec.age_group))
             /\ rec.total_users >= 2
             /\ \E i \in 1..Len(USERS_DF.rows) :
                   /\ USERS_DF.rows[i].occupation = rec.occupation
                   /\ Bucket(USERS_DF.rows[i].age) # rec.age_group

\* C15: for every (occupation, age_group, genre) reported, rating_count is the
\* number of (rating, genre-membership) pairs in which the rating's user is in
\* the segment and the rated movie belongs to the genre: a rating counts once
\* in each genre of its movie, and nowhere when its movie has no genre.
C15_RatingCountIsPairCount ==
    ReturnedTopGenres =>
        \A r \in 1..Len(lastCall.result) :
            \A k \in 1..Len(lastCall.result[r].top_genres) :
                lastCall.result[r].top_genres[k].rating_count
                    = PairCount(lastCall.result[r].occupation,
                                lastCall.result[r].age_group,
                                GenreOf(lastCall.result[r].top_genres[k]))

\* C15 witness: a user of a reported segment rated a movie with no genre and a
\* movie with several genres, and two of the listed genres are genres of one
\* movie the user rated
C15_Witness ==
    /\ ReturnedTopGenres
    /\ \E r \in 1..Len(lastCall.result) :
          LET rec == lastCall.result[r]
          IN \E i, n \in 1..Len(RATINGS_DF.rows) :
                /\ RATINGS_DF.rows[i].user_id \in SegmentUserIds(rec.occupation, rec.age_group)
                /\ RATINGS_DF.rows[n].user_id = RATINGS_DF.rows[i].user_id
                /\ \A j \in 1..Len(MOVIE_GENRES_DF.rows) :
                      MOVIE_GENRES_DF.rows[j].movie_id # RATINGS_DF.rows[n].movie_id
                /\ \E g, h \in ListedGenres(rec) :
                      /\ g # h
                      /\ PairsOfRating(i, rec.occupation, rec.age_group, g) # {}
                      /\ PairsOfRating(i, rec.occupation, rec.age_group, h) # {}

\* --------------------------------------------- the similarity on many tables
\* SpecSim runs find_similar_movies on a loaded dataset: ThreeMovies with the
\* target 'Usual Suspects' (movie 2) and the candidates movie 1 and movie 3.
\* Each of NumSimUsers users rates the target and movie 1 with a score of
\* ScoreChoices or not at all; users 1 and 2 rate movie 3 with 3 and 4.  Users
\* are interchangeable for find_similar_movies, so every multiset of (target
\* score, movie 1 score) pairs is listed once, in non-decreasing order of user
\* id.  Each candidate is tried with each sign of rounding error.
NumSimUsers == 3

SimUserIds == 1..NumSimUsers

SimilarityChoices == {0, 50, 75, 100}

SimSearchStrings ==
    {"Usual Suspects", "Toy Story (1995)", "toy story", "Casablanca", "(1995"}

SimScores == ({0} \cup ScoreChoices) \X ({0} \cup ScoreChoices)

\* the order in which the pairs of scores are listed
PairRank(p) == 10 * p[1] + p[2]

SimRatingRows(score) ==
    Flatten([u \in SimUserIds |->
        (IF score[u][2] = 0 THEN <<>> ELSE << Rating(u, 1, score[u][2]) >>)
        \o (IF score[u][1] = 0 THEN <<>> ELSE << Rating(u, 2, score[u][1]) >>)
        \o (IF u = 1 THEN << Rating(1, 3, 3) >>
            ELSE IF u = 2 THEN << Rating(2, 3, 4) >> ELSE <<>>)])

SimVariants ==
    { Dataset(SimRatingRows(score), BaseUsers, ThreeMovies) :
        score \in {s \in [SimUserIds -> SimScores] :
                      \A u \in SimUserIds :
                          u > 1 => PairRank(s[u - 1]) <= PairRank(s[u])} }

\* the rounding errors of the two candidates: none, or of opposite signs
SimFpErrors == {f \in FpErrors : f[2] = 0 /\ f[4] = 0 /\ f[1] + f[3] = 0}

InitSim ==
    /\ fpError \in SimFpErrors
    /\ \E d \in SimVariants \cup {NoTargetDataset} : Loaded(d)

\* find_similar_movies reads the tables and changes none of them: one call on
\* each table with each argument list reaches every result it can give
FirstCall == lastCall.op = "download_and_load_data"

FindSimilarOnce(target_movie, similarity_threshold, cooccurrence_threshold, top_n) ==
    /\ FirstCall
    /\ FindSimilar(target_movie, similarity_threshold, cooccurrence_threshold, top_n)

NextSim ==
    \/ \E st \in SimilarityChoices, ct \in 0..NumSimUsers, n \in 1..MaxTopN :
          FindSimilarOnce("Usual Suspects", st, ct, n)
    \/ \E t \in SimSearchStrings : FindSimilarOnce(t, 50, 2, MaxTopN)

SpecSim == InitSim /\ [][NextSim]_vars

\* what the tables say about a target t and a candidate m, counted directly
\* from the rows of the ratings table
ReturnedSimilar ==
    lastCall.op = "find_similar_movies" /\ lastCall.outcome = "returned"

\* the movie id of the first row of the Movies table with the given title
IdOfTitle(title) ==
    MOVIES_DF.rows[CHOOSE i \in 1..Len(MOVIES_DF.rows) :
                      /\ MOVIES_DF.rows[i].title = title
                      /\ \A j \in 1..(i - 1) : MOVIES_DF.rows[j].title # title].movie_id

HasTitle(title) == \E i \in 1..Len(MOVIES_DF.rows) : MOVIES_DF.rows[i].title = title

\* a call whose target is 'Usual Suspects, The (1995)', on tables that list it
UsualSuspectsCall ==
    /\ lastCall.op = "find_similar_movies"
    /\ lastCall.args.target_movie = "Usual Suspects"
    /\ HasTitle("Usual Suspects, The (1995)")

UsualSuspects == IdOfTitle("Usual Suspects, The (1995)")

RatingIdx == 1..Len(RATINGS_DF.rows)

\* the pairs (rating of t, rating of m) by the same user
CommonPairs(t, m) ==
    {p \in RatingIdx \X RatingIdx :
        /\ RATINGS_DF.rows[p[1]].movie_id = t
        /\ RATINGS_DF.rows[p[2]].movie_id = m
        /\ RATINGS_DF.rows[p[1]].user_id = RATINGS_DF.rows[p[2]].user_id}

CommonUsers(t, m) == {RATINGS_DF.rows[p[1]].user_id : p \in CommonPairs(t, m)}

\* the movies other than t rated by a user who rated t
Candidates(t) ==
    {RATINGS_DF.rows[i].movie_id : i \in RatingIdx} \ ({t} \cup
        {m \in {RATINGS_DF.rows[i].movie_id : i \in RatingIdx} : CommonPairs(t, m) = {}})

PairX(p) == RATINGS_DF.rows[p[1]].rating

PairY(p) == RATINGS_DF.rows[p[2]].rating

RECURSIVE SumOfProducts(_)
SumOfProducts(P) ==
    IF P = {} THEN [n |-> 0, x |-> 0, y |-> 0, xx |-> 0, yy |-> 0, xy |-> 0]
    ELSE LET p == CHOOSE q \in P : TRUE
             rest == SumOfProducts(P \ {p})
         IN [n |-> rest.n + 1,
             x |-> rest.x + PairX(p), y |-> rest.y + PairY(p),
             xx |-> rest.xx + PairX(p) * PairX(p),
             yy |-> rest.yy + PairY(p) * PairY(p),
             xy |-> rest.xy + PairX(p) * PairY(p)]

\* Pearson's r of the pairs is PearsonCov / sqrt(PearsonVarX * PearsonVarY)
PearsonCov(s) == s.n * s.xy - s.x * s.y

PearsonVarX(s) == s.n * s.xx - s.x * s.x

PearsonVarY(s) == s.n * s.yy - s.y * s.y

ZeroVariance(t, m) ==
    \/ \A p, q \in CommonPairs(t, m) : PairX(p) = PairX(q)
    \/ \A p, q \in CommonPairs(t, m) : PairY(p) = PairY(q)

\* r compared with k / 100, r being 0 when a variance is zero
PearsonAtLeast(s, k) ==
    LET c == IF PearsonVarX(s) * PearsonVarY(s) = 0 THEN 0 ELSE PearsonCov(s)
        v == IF PearsonVarX(s) * PearsonVarY(s) = 0 THEN 1
             ELSE PearsonVarX(s) * PearsonVarY(s)
    IN IF k <= 0 THEN c >= 0 \/ 10000 * c * c <= k * k * v
       ELSE c > 0 /\ 10000 * c * c >= k * k * v

PearsonIs(s, k) == PearsonAtLeast(s, k) /\ ~PearsonAtLeast(s, k + 1)

\* the floating-point correlation of m is the exact r: no variance is zero
\* and no rounding error is made, or the clip to [-1, 1] removes it, or a
\* variance is zero and the correlation is set to 0.0
ComputedExactly(s, m) ==
    \/ PearsonVarX(s) * PearsonVarY(s) = 0
    \/ fpError[m] = 0
    \/ PearsonIs(s, 100) /\ fpError[m] > 0
    \/ PearsonIs(s, -100) /\ fpError[m] < 0

RecordsOf(m) == {k \in 1..Len(lastCall.result) : lastCall.result[k].movie_id = m}

\* C16: both filters of find_similar_movies are inclusive.  Every returned
\* record has cooccurrence_count >= cooccurrence_threshold and a similarity
\* >= similarity_threshold, and a candidate with at least 2 pairs whose
\* co-occurrence count is exactly cooccurrence_threshold and whose computed
\* similarity is exactly similarity_threshold is returned unless top_n records
\* are.
C16_RecordAbove(rec, k) ==
    /\ rec.cooccurrence_count >= lastCall.args.cooccurrence_threshold
    /\ rec.cooccurrence_count = Cardinality(CommonUsers(UsualSuspects, rec.movie_id))
    /\ rec.similarity_score >= 2 * lastCall.args.similarity_threshold
    /\ PearsonAtLeast(SumOfProducts(CommonPairs(UsualSuspects, rec.movie_id)), k)

C16_OnThresholds(m) ==
    /\ Cardinality(CommonUsers(UsualSuspects, m)) = lastCall.args.cooccurrence_threshold
    /\ Cardinality(CommonPairs(UsualSuspects, m)) >= 2
    /\ PearsonIs(SumOfProducts(CommonPairs(UsualSuspects, m)),
                 2 * lastCall.args.similarity_threshold - 100)
    /\ ComputedExactly(SumOfProducts(CommonPairs(UsualSuspects, m)), m)

C16_ThresholdsInclusive ==
    (UsualSuspectsCall /\ ReturnedSimilar) =>
        /\ \A k \in 1..Len(lastCall.result) :
              C16_RecordAbove(lastCall.result[k],
                              2 * lastCall.args.similarity_threshold - 100)
        /\ \A m \in Candidates(UsualSuspects) :
              C16_OnThresholds(m) =>
                  \/ RecordsOf(m) # {}
                  \/ Len(lastCall.result) = lastCall.args.top_n

\* a candidate on both thresholds, its correlation being neither 0 nor 1, is
\* returned
C16_Witness ==
    /\ UsualSuspectsCall /\ ReturnedSimilar
    /\ \E m \in Candidates(UsualSuspects) :
          /\ C16_OnThresholds(m)
          /\ lastCall.args.similarity_threshold = 75
          /\ lastCall.args.cooccurrence_threshold = NumSimUsers
          /\ RecordsOf(m) # {}

\* C17: in every record returned by find_similar_movies, whatever the tables
\* and the thresholds, correlation is in [-1, 1], similarity_score is in
\* [0, 1] and similarity_score = (correlation + 1) / 2.  (correlation counts
\* 1/CorrScale, similarity_score counts 1/(2 * CorrScale); the correlation
\* of a record is Pearson's r of its pairs to within 1/CorrScale.)
C17_ScoreOfRecord(rec) ==
    /\ rec.correlation >= 0 - CorrScale
    /\ rec.correlation <= CorrScale
    /\ rec.similarity_score >= 0
    /\ rec.similarity_score <= 2 * CorrScale
    /\ rec.similarity_score = rec.correlation + CorrScale
    /\ PearsonAtLeast(SumOfProducts(CommonPairs(UsualSuspects, rec.movie_id)),
                      rec.correlation - 1)
    /\ ~PearsonAtLeast(SumOfProducts(CommonPairs(UsualSuspects, rec.movie_id)),
                       rec.correlation + 1)

C17_ScoresInRange ==
    (UsualSuspectsCall /\ ReturnedSimilar) =>
        \A k \in 1..Len(lastCall.result) : C17_ScoreOfRecord(lastCall.result[k])

\* two records are returned, one with a negative correlation and one whose
\* correlation is clipped to 1
C17_Witness ==
    /\ UsualSuspectsCall /\ ReturnedSimilar
    /\ \E j, k \in 1..Len(lastCall.result) :
          /\ lastCall.result[j].correlation = CorrScale
          /\ fpError[lastCall.result[j].movie_id] > 0
          /\ lastCall.result[k].correlation < 0
          /\ lastCall.result[k].correlation > 0 - CorrScale

\* C18: zero variance is a value, not a failure.  When the target's ratings
\* over the common users are all equal, or the candidate's are, the call
\* returns, the candidate's record (if any) has correlation 0 and
\* similarity_score 0.5, and the candidate is treated as one of similarity
\* 0.5: returned when it has at least 2 pairs, reaches cooccurrence_threshold
\* and similarity_threshold <= 0.5 (unless top_n records are returned), and
\* not returned when similarity_threshold > 0.5.
C18_NeutralCandidate(m) ==
    /\ \A k \in RecordsOf(m) :
          /\ lastCall.result[k].correlation = 0
          /\ lastCall.result[k].similarity_score = CorrScale
    /\ lastCall.args.similarity_threshold > 50 => RecordsOf(m) = {}
    /\ ( /\ lastCall.args.similarity_threshold <= 50
         /\ Cardinality(CommonUsers(UsualSuspects, m))
               >= lastCall.args.cooccurrence_threshold
         /\ Cardinality(CommonPairs(UsualSuspects, m)) >= 2 )
       => \/ RecordsOf(m) # {}
          \/ Len(lastCall.result) = lastCall.args.top_n

C18_ZeroVarianceIsNeutral ==
    UsualSuspectsCall =>
        /\ lastCall.outcome = "returned"
        /\ \A m \in Candidates(UsualSuspects) :
              ZeroVariance(UsualSuspects, m) => C18_NeutralCandidate(m)

\* a candidate whose own ratings vary while the target's are all equal, and
\* one whose ratings are all equal while the target's vary, are returned with
\* similarity 0.5
C18_Witness ==
    /\ UsualSuspectsCall /\ ReturnedSimilar
    /\ \E m \in Candidates(UsualSuspects) :
          /\ \A p, q \in CommonPairs(UsualSuspects, m) : PairX(p) = PairX(q)
          /\ \E p, q \in CommonPairs(UsualSuspects, m) : PairY(p) # PairY(q)
          /\ \E k \in RecordsOf(m) : lastCall.result[k].similarity_score = CorrScale
          /\ lastCall.args.similarity_threshold = 50

\* the search string occurs in the title as a literal substring, ignoring
\* case: its tokens, parentheses included, are consecutive tokens of the title
LiteralSubstring(title, str) ==
    LET text == [i \in 1..Len(Tokens(title)) |-> Lower(Tokens(title)[i])]
        word == [i \in 1..Len(Tokens(str)) |-> Lower(Tokens(str)[i])]
    IN \E start \in 0..(Len(text) - Len(word)) :
          \A i \in 1..Len(word) : text[start + i] = word[i]

\* the movie ids the claim names as target, in Movies-table order
LiteralTargets(str) ==
    LET direct == SelectSeq(MOVIES_DF.rows, LAMBDA m : LiteralSubstring(m.title, str))
        fallback == SelectSeq(MOVIES_DF.rows,
                              LAMBDA m : LiteralSubstring(m.title, "Usual Suspects"))
        rows == IF direct # <<>> THEN direct ELSE fallback
    IN [i \in 1..Len(rows) |-> rows[i].movie_id]

\* the movie ids find_similar_movies returns for the target t, in order
SimilarIdsOf(t, args) ==
    LET top == sorted_movies(
                  movie_similarities(RATINGS_DF.rows, t, args.similarity_threshold,
                                     args.cooccurrence_threshold, fpError),
                  args.top_n)
    IN [k \in 1..Len(top) |-> top[k].movie_id]

\* C19: the target of find_similar_movies is the first movie, in Movies-table
\* order, whose title contains the target string as a literal substring
\* ignoring case; when there is none, the first movie whose title contains
\* 'Usual Suspects'; when there is none either, the call raises.
C19_LiteralTargetResolution ==
    lastCall.op = "find_similar_movies" =>
        IF LiteralTargets(lastCall.args.target_movie) = <<>>
        THEN lastCall.outcome = "raised"
        ELSE /\ lastCall.outcome = "returned"
             /\ [k \in 1..Len(lastCall.result) |-> lastCall.result[k].movie_id]
                   = SimilarIdsOf(LiteralTargets(lastCall.args.target_movie)[1],
                                  lastCall.args)

\* C20: a candidate with fewer than 2 (target rating, candidate rating) pairs
\* is never returned by find_similar_movies, whatever cooccurrence_threshold
\* is, 0 and 1 included: every returned record rests on at least 2 pairs.
C20_AtLeastTwoPairs ==
    (UsualSuspectsCall /\ ReturnedSimilar) =>
        \A k \in 1..Len(lastCall.result) :
            Cardinality(CommonPairs(UsualSuspects, lastCall.result[k].movie_id)) >= 2

\* a candidate with one pair reaches both thresholds (its similarity would be
\* 0.5) and is left out although fewer than top_n records are returned
C20_Witness ==
    /\ UsualSuspectsCall /\ ReturnedSimilar
    /\ lastCall.args.cooccurrence_threshold <= 1
    /\ lastCall.args.similarity_threshold <= 50
    /\ Len(lastCall.result) < lastCall.args.top_n
    /\ \E m \in Candidates(UsualSuspects) :
          /\ Cardinality(CommonPairs(UsualSuspects, m)) = 1
          /\ RecordsOf(m) = {}

\* Pearson's r of s1 is less than that of s2, r being 0 when a variance is zero
PearsonLess(s1, s2) ==
    LET z1 == PearsonVarX(s1) * PearsonVarY(s1) = 0
        z2 == PearsonVarX(s2) * PearsonVarY(s2) = 0
        c1 == IF z1 THEN 0 ELSE PearsonCov(s1)
        v1 == IF z1 THEN 1 ELSE PearsonVarX(s1) * PearsonVarY(s1)
        c2 == IF z2 THEN 0 ELSE PearsonCov(s2)
        v2 == IF z2 THEN 1 ELSE PearsonVarX(s2) * PearsonVarY(s2)
    IN IF c1 < 0 /\ c2 >= 0 THEN TRUE
       ELSE IF c1 >= 0 /\ c2 < 0 THEN FALSE
       ELSE IF c1 >= 0 THEN c1 * c1 * v2 < c2 * c2 * v1
       ELSE c1 * c1 * v2 > c2 * c2 * v1

\* the sign of the difference between the floating-point correlation of m and
\* the exact r
RoundingOf(s, m) == IF ComputedExactly(s, m) THEN 0 ELSE fpError[m]

\* the computed similarity of m1 is less than that of m2
ComputedLess(t, m1, m2) ==
    \/ PearsonLess(SumOfProducts(CommonPairs(t, m1)), SumOfProducts(CommonPairs(t, m2)))
    \/ /\ ~PearsonLess(SumOfProducts(CommonPairs(t, m2)),
                       SumOfProducts(CommonPairs(t, m1)))
       /\ RoundingOf(SumOfProducts(CommonPairs(t, m1)), m1)
             < RoundingOf(SumOfProducts(CommonPairs(t, m2)), m2)

\* the candidates that survive both filters: at least 2 pairs, a co-occurrence
\* count >= ct and a computed similarity >= st (in hundredths)
Passing(t, ct, st) ==
    {m \in Candidates(t) :
        /\ Cardinality(CommonPairs(t, m)) >= 2
        /\ Cardinality(CommonUsers(t, m)) >= ct
        /\ PearsonAtLeast(SumOfProducts(CommonPairs(t, m)), 2 * st - 100)
        /\ PearsonIs(SumOfProducts(CommonPairs(t, m)), 2 * st - 100)
              => RoundingOf(SumOfProducts(CommonPairs(t, m)), m) >= 0}

\* C21: find_similar_movies returns min(top_n, number of candidates passing
\* both thresholds) records, each for another passing candidate and none for
\* the target, in non-increasing order of similarity_score, and no passing
\* candidate that is left out has a higher computed similarity than a
\* returned one.
C21_CountOf(P) ==
    /\ Len(lastCall.result) = Min(lastCall.args.top_n, Cardinality(P))
    /\ \A k \in 1..Len(lastCall.result) :
          /\ lastCall.result[k].movie_id \in P
          /\ lastCall.result[k].movie_id # UsualSuspects
          /\ \A j \in 1..(k - 1) :
                /\ lastCall.result[j].movie_id # lastCall.result[k].movie_id
                /\ lastCall.result[j].similarity_score
                      >= lastCall.result[k].similarity_score
                /\ ~ComputedLess(UsualSuspects, lastCall.result[j].movie_id,
                                 lastCall.result[k].movie_id)

C21_NoneLeftOutHigher(P) ==
    \A m \in P :
        RecordsOf(m) = {} =>
            \A k \in 1..Len(lastCall.result) :
                ~ComputedLess(UsualSuspects, lastCall.result[k].movie_id, m)

C21_TopNBySimilarity ==
    (UsualSuspectsCall /\ ReturnedSimilar) =>
        /\ C21_CountOf(Passing(UsualSuspects, lastCall.args.cooccurrence_threshold,
                               lastCall.args.similarity_threshold))
        /\ C21_NoneLeftOutHigher(Passing(UsualSuspects,
                                         lastCall.args.cooccurrence_threshold,
                                         lastCall.args.similarity_threshold))

\* two candidates pass, top_n is 1, and the one returned is the one with the
\* larger movie id, its similarity being the higher
C21_Witness ==
    /\ UsualSuspectsCall /\ ReturnedSimilar
    /\ lastCall.args.top_n = 1
    /\ Cardinality(Passing(UsualSuspects, lastCall.args.cooccurrence_threshold,
                           lastCall.args.similarity_threshold)) = 2
    /\ Len(lastCall.result) = 1
    /\ \E m \in Candidates(UsualSuspects) :
          /\ m < lastCall.result[1].movie_id
          /\ ComputedLess(UsualSuspects, m, lastCall.result[1].movie_id)

\* --------------------------------------------------------------- idempotence
ReturnedAnalysis == lastCall.op \in AnalysisOps /\ lastCall.outcome = "returned"

\* the rows of the six tables
RowsOf(t) == [k \in DOMAIN t |-> t[k].rows]

\* the files are there and hold the rows that the shared tables were loaded from
FilesUnchanged ==
    /\ dirExists
    /\ present = DataFiles
    /\ RowsOf(Globals) = RowsOf(Built(disk, RATINGS_DF.obj))

\* the call of lastCall made once more, on the shared tables t
SecondRun(t) ==
    AnalysisCall(lastCall.op, lastCall.args, dirExists, present, disk, t, loads)

\* download_and_load_data called now
Reload == download_and_load_data(dirExists, present, disk, Globals, loads + 1)

StoreDataset ==
    Dataset(<< Rating(1, 3, 5), Rating(1, 2, 4), Rating(2, 2, 3), Rating(2, 1, 2),
               Rating(3, 2, 5), Rating(3, 1, 4) >>,
            << User(1, 25, "M", "engineer"), User(2, 35, "F", "engineer"),
               User(3, 40, "M", "doctor") >>,
            ThreeMovies)

StoreDatasets == SampleDatasets \cup {StoreDataset}

StoreTargets == {"Usual Suspects", "toy story"}

\* a top_genres entry as a statement parameter
GenreParameter(entry, as_tuple) ==
    [genre |-> [tuple |-> as_tuple, name |-> entry.genre[3]],
     avg_rating |-> entry.avg_rating,
     rating_count |-> entry.rating_count]

GenreParameters(results, as_tuple) ==
    [k \in 1..Len(results) |->
        [occupation |-> results[k].occupation,
         age_group |-> results[k].age_group,
         top_genres |-> [i \in 1..Len(results[k].top_genres) |->
                            GenreParameter(results[k].top_genres[i], as_tuple)],
         total_users |-> results[k].total_users]]

\* the results of the four analyses on the tables t, and the title of the
\* movie find_similar_movies used as its target
AnalysisResults(t, target_movie, as_tuple, similar) ==
    [results |->
        [mean_age_by_occupation |-> mean_age_results(t.users_df),
         top_rated_movies |->
             top_rated_results(t.ratings_df, t.movies_df, 1, MaxTopN).result,
         top_genres_by_occupation_age |->
             GenreParameters(top_genres_results(t.ratings_df, t.users_df,
                                                t.movie_genres_df).result, as_tuple),
         similar_movies |-> similar.result],
     target |-> MovieMatch(t.movies_df.rows, similar.target_movie_id)[1].title]

ResultsOf(d, target_movie, as_tuple) ==
    AnalysisResults(get_data(Built(d, 1)), target_movie, as_tuple,
        similar_movies_results(DataFrame(1, d.ratings), DataFrame(1, d.movies),
                               target_movie, 50, 2, MaxTopN, NoFpError))

StoreInputs ==
    {ResultsOf(d, t, FALSE) : d \in StoreDatasets, t \in StoreTargets}
    \cup {ResultsOf(StoreDataset, "Usual Suspects", TRUE)}

InitStore ==
    /\ dirExists = TRUE
    /\ present = DataFiles
    /\ disk = StoreDataset
    /\ fpError = NoFpError
    /\ Imported
    /\ DagInit
    /\ DbInit
    /\ ThreadInit

NextStore ==
    \/ \E ok \in BOOLEAN : Connect(ok)
    \/ Disconnect
    \/ \E input \in StoreInputs, fault \in Faults : Store(input, fault)

SpecStore == InitStore /\ [][NextStore]_vars

\* a step in which a store_movielens_results call commits
StoreCommits == lastStore'.n = lastStore.n + 1 /\ lastStore'.outcome = "returned"

\* the stored number (unit 1/to) is the given number (unit 1/from)
SameValue(stored, to, given, from) == stored * from = given * to

\* the row holds the fields that a record of the results gives
GivenMeanAge(row, res) ==
    /\ row.key = <<res.occupation>>
    /\ SameValue(row.mean_age, 100, res.mean_age, 100)
    /\ row.user_count = res.user_count
    /\ SameValue(row.std_dev, 100, res.std_dev, 100)
    /\ row.min_age = res.min_age
    /\ row.max_age = res.max_age

GivenTopRated(row, res) ==
    /\ row.key = <<res.movie_id>>
    /\ row.title = res.title
    /\ SameValue(row.avg_rating, 1000, res.avg_rating, 1000)
    /\ row.rating_count = res.rating_count
    /\ SameValue(row.rating_std, 1000, res.rating_std, 1000)
    /\ row.release_date = res.release_date

GivenTopGenre(row, res, i) ==
    /\ i <= 3
    /\ row.key = <<res.occupation, res.age_group, res.top_genres[i].genre.name>>
    /\ SameValue(row.avg_rating, 1000, res.top_genres[i].avg_rating, 1000)
    /\ row.rating_count = res.top_genres[i].rating_count
    /\ row.genre_rank = i
    /\ row.total_users = res.total_users

GivenSimilar(row, res, i) ==
    /\ row.key[2] = res.movie_id
    /\ row.similar_movie_title = res.title
    /\ SameValue(row.similarity_score, SimilarityColumnScale,
                 res.similarity_score, 2 * CorrScale)
    /\ row.cooccurrence_count = res.cooccurrence_count
    /\ SameValue(row.correlation, SimilarityColumnScale, res.correlation, CorrScale)
    /\ row.similarity_rank = i
    /\ row.release_date = res.release_date

\* the natural keys a results dictionary gives for a table, each with the
\* positions at which it is given: <<key, k, i>>
GivenKeys(name, results) ==
    CASE name = "mean_age" ->
            {<< <<results.mean_age_by_occupation[k].occupation>>, k, 0 >> :
                k \in 1..Len(results.mean_age_by_occupation)}
      [] name = "top_rated" ->
            {<< <<results.top_rated_movies[k].movie_id>>, k, 0 >> :
                k \in 1..Len(results.top_rated_movies)}
      [] name = "top_genres" ->
            UNION {{<< <<results.top_genres_by_occupation_age[k].occupation,
                         results.top_genres_by_occupation_age[k].age_group,
                         results.top_genres_by_occupation_age[k].top_genres[i].genre.name>>,
                       k, i >> :
                      i \in 1..Min(3, Len(results.top_genres_by_occupation_age[k].top_genres))} :
                   k \in 1..Len(results.top_genres_by_occupation_age)}
      [] name = "similar" ->
            {<< <<"Usual Suspects, The (1995)", results.similar_movies[k].movie_id>>, k, 0 >> :
                k \in 1..Len(results.similar_movies)}

\* the row holds what the results give at the position g = <<key, k, i>>
GivenAt(name, row, results, g) ==
    CASE name = "mean_age" -> GivenMeanAge(row, results.mean_age_by_occupation[g[2]])
      [] name = "top_rated" -> GivenTopRated(row, results.top_rated_movies[g[2]])
      [] name = "top_genres" ->
            GivenTopGenre(row, results.top_genres_by_occupation_age[g[2]], g[3])
      [] name = "similar" -> GivenSimilar(row, results.similar_movies[g[2]], g[2])

ResultTables == {"mean_age", "top_rated", "top_genres", "similar"}

RowsOfTable(table) == {table[i] : i \in 1..Len(table)}

KeysOfTable(table) == {table[i].key : i \in 1..Len(table)}

OneRowPerKey(table) ==
    \A i, j \in 1..Len(table) : table[i].key = table[j].key => i = j

\* the last position at which the results give the key of g
LastGiven(G, g) ==
    \A h \in G : h[1] = g[1] => (h[2] < g[2] \/ (h[2] = g[2] /\ h[3] <= g[3]))

\* after the call, the table holds one row per key: the row the call gives
\* last for the keys it gives, the row held before for the others
LastWriteWins(name, before, after, results) ==
    /\ OneRowPerKey(after)
    /\ KeysOfTable(after)
          = KeysOfTable(before) \cup {g[1] : g \in GivenKeys(name, results)}
    /\ \A row \in RowsOfTable(after) :
          /\ \A g \in GivenKeys(name, results) :
                (g[1] = row.key /\ LastGiven(GivenKeys(name, results), g))
                    => GivenAt(name, row, results, g)
          /\ (\A g \in GivenKeys(name, results) : g[1] # row.key)
                => row \in RowsOfTable(before)

StoreCalled == lastStore'.n = lastStore.n + 1

\* the number of records of a results dictionary: one per occupation, per
\* movie, per listed genre up to 3 per segment, per similar movie
RecordCount(results) ==
    Cardinality(GivenKeys("mean_age", results)) + Cardinality(GivenKeys("top_rated", results))
    + Cardinality(GivenKeys("top_genres", results)) + Cardinality(GivenKeys("similar", results))

\* C28: store_movielens_results is all-or-nothing.  A call made without an
\* established connection, or one of whose statements (the commit included)
\* fails, raises and leaves every table, movielens_pipeline_runs included, as
\* the earlier calls committed it, the open connection's transaction being
\* rolled back; a call that returns has committed a row for each of its
\* records and its movielens_pipeline_runs row, and returns the number of its
\* records.
C28_AllOrNothing ==
    [][StoreCalled =>
          /\ lastStore'.outcome \in {"raised", "returned"}
          /\ (connection # "open" \/ lastStore'.fault # "none")
                => lastStore'.outcome = "raised"
          /\ lastStore'.outcome = "raised" =>
                /\ db' = db
                /\ connection = "open" => lastStore'.rollback
          /\ lastStore'.outcome = "returned" =>
                /\ lastStore'.count = RecordCount(lastStore'.results)
                /\ \A name \in ResultTables :
                      \A g \in GivenKeys(name, lastStore'.results) :
                          g[1] \in KeysOfTable(db'[name])
                /\ Len(db'.runs) = Len(db.runs) + 1
                /\ db'.runs[Len(db'.runs)].total_results = lastStore'.count
                /\ \A i \in 1..Len(db.runs) : db'.runs[i] = db.runs[i]]_vars

\* a call with records failed on an open connection after an earlier call had
\* committed: the tables hold the one run of the earlier call
C28_Witness ==
    /\ lastStore.n = 2
    /\ lastStore.outcome = "raised"
    /\ lastStore.rollback
    /\ connection = "open"
    /\ RecordCount(lastStore.results) > 0
    /\ Len(db.runs) = 1
    /\ db.runs[1].total_results > 0
    /\ Len(db.mean_age) = db.runs[1].mean_age_count

\* the rows of a table that belong to one (occupation, age_group)
SegmentRows(table, occupation, age_group) ==
    {i \in 1..Len(table) : table[i].key[1] = occupation /\ table[i].key[2] = age_group}

\* C29: after every committed store_movielens_results call each result table
\* holds exactly the records of that call's result lists, no row being left
\* over from an earlier call; the genre table holds at most 3 rows, with
\* distinct genre_rank, for one (occupation, age_group), and the
\* similar-movies table holds no two rows with the same similarity_rank for
\* one target.
C29_OnlyLatestRecords ==
    lastStore.outcome = "returned" =>
        /\ \A name \in ResultTables :
              KeysOfTable(db[name]) = {g[1] : g \in GivenKeys(name, lastStore.results)}
        /\ \A i, j \in 1..Len(db.top_genres) :
              (/\ db.top_genres[i].key[1] = db.top_genres[j].key[1]
               /\ db.top_genres[i].key[2] = db.top_genres[j].key[2]
               /\ db.top_genres[i].genre_rank = db.top_genres[j].genre_rank) => i = j
        /\ \A i \in 1..Len(db.top_genres) :
              Cardinality(SegmentRows(db.top_genres, db.top_genres[i].key[1],
                                      db.top_genres[i].key[2])) <= 3
        /\ \A i, j \in 1..Len(db.similar) :
              (/\ db.similar[i].key[1] = db.similar[j].key[1]
               /\ db.similar[i].similarity_rank = db.similar[j].similarity_rank) => i = j

\* C30: similarity records are stored under the target they were computed
\* for.  After a committed store_movielens_results call, every similar movie
\* of the results passed has its row under the natural key made of the title
\* of the movie that find_similar_movies used as the target and the similar
\* movie's id.
C30_StoredUnderOwnTarget ==
    lastStore.outcome = "returned" =>
        \A k \in 1..Len(lastStore.results.similar_movies) :
            <<lastStore.target, lastStore.results.similar_movies[k].movie_id>>
                \in KeysOfTable(db.similar)

\* C27: a download_and_load_data call that raises, at whatever step, leaves
\* the six shared tables as they were before the call; the shared tables
\* change only in a step in which a download_and_load_data call returns.
C27_RaisedLoadLeavesTables ==
    [][/\ (/\ lastCall'.op = "download_and_load_data"
           /\ loads' = loads + 1
           /\ lastLoad' = "raised") => Globals' = Globals
       /\ Globals' # Globals => (loads' > loads /\ lastLoad' = "returned")]_vars

\* ------------------------------------------- the genre relation on all flags
\* SpecFlags loads datasets of two movies: the first has one of the 19 flags
\* set, none, all of them or the three with a special display name; the second
\* has none, one or two.
FlagChoices ==
    {{genre_columns[i]} : i \in 1..Len(genre_columns)}
    \cup {{}, {genre_columns[i] : i \in 1..Len(genre_columns)},
          {"sci_fi", "film_noir", "childrens"}}

SecondFlagChoices == {{}, {"sci_fi"}, {"drama", "war"}}

FlagDatasets ==
    {Dataset(<< Rating(1, 1, 4), Rating(2, 2, 3) >>,
             << User(1, 30, "M", "doctor"), User(2, 22, "F", "student") >>,
             << Movie(1, "Toy Story (1995)", "01-Jan-1995", f1),
                Movie(2, "Usual Suspects, The (1995)", "25-Aug-1995", f2) >>) :
        f1 \in FlagChoices, f2 \in SecondFlagChoices}

InitFlags ==
    /\ dirExists = TRUE
    /\ present = DataFiles
    /\ disk \in FlagDatasets
    /\ fpError = NoFpError
    /\ Imported
    /\ DagInit
    /\ DbInit
    /\ ThreadInit

NextFlags == Load

SpecFlags == InitFlags /\ [][NextFlags]_vars

\* the capitalised name of a flag
Capitalised ==
    [unknown |-> "Unknown", action |-> "Action", adventure |-> "Adventure",
     animation |-> "Animation", childrens |-> "Childrens", comedy |-> "Comedy",
     crime |-> "Crime", documentary |-> "Documentary", drama |-> "Drama",
     fantasy |-> "Fantasy", film_noir |-> "Film_noir", horror |-> "Horror",
     musical |-> "Musical", mystery |-> "Mystery", romance |-> "Romance",
     sci_fi |-> "Sci_fi", thriller |-> "Thriller", war |-> "War",
     western |-> "Western"]

\* the display form of a flag
DisplayForm(flag) ==
    CASE flag = "sci_fi" -> "Sci-Fi"
      [] flag = "film_noir" -> "Film-Noir"
      [] flag = "childrens" -> "Children's"
      [] OTHER -> Capitalised[flag]

\* the rows of the relation for one movie and one genre name
RelationRows(rel, movie_id, genre) ==
    {i \in 1..Len(rel) : rel[i].movie_id = movie_id /\ rel[i].genre = genre}

\* C25: the genre-membership relation built at load time holds exactly one
\* (movie_id, genre) row for every movie and every genre flag of it that is 1,
\* and no other row; the genre is the display form of the flag (Sci-Fi,
\* Film-Noir, Children's, otherwise the capitalised name), and the display
\* forms of distinct flags differ.
C25_GenreRelation ==
    lastLoad = "returned" =>
        LET movies == MOVIES_DF.rows
            rel == MOVIE_GENRES_DF.rows
        IN /\ \A m \in 1..Len(movies) : \A flag \in movies[m].flags :
                 Cardinality(RelationRows(rel, movies[m].movie_id, DisplayForm(flag))) = 1
           /\ \A i \in 1..Len(rel) :
                 \E m \in 1..Len(movies) : \E flag \in movies[m].flags :
                     /\ rel[i].movie_id = movies[m].movie_id
                     /\ rel[i].title = movies[m].title
                     /\ rel[i].genre = DisplayForm(flag)
           /\ \A m \in 1..Len(movies) : \A f, g \in movies[m].flags :
                 f # g => RelationRows(rel, movies[m].movie_id, DisplayForm(f))
                            # RelationRows(rel, movies[m].movie_id, DisplayForm(g))

\* a load returned on a movie with all 19 flags set: the relation holds 19
\* rows for it, among them Sci-Fi, Film-Noir and Children's
C25_Witness ==
    /\ lastLoad = "returned"
    /\ Cardinality(MOVIES_DF.rows[1].flags) = 19
    /\ Cardinality({i \in 1..Len(MOVIE_GENRES_DF.rows) :
                       MOVIE_GENRES_DF.rows[i].movie_id = 1}) = 19
    /\ \A name \in {"Sci-Fi", "Film-Noir", "Children's"} :
          RelationRows(MOVIE_GENRES_DF.rows, 1, name) # {}

\* what the callable of an analysis task computes on the files of the run,
\* whatever the other tasks do
OwnOutcome(t) == Compute(TaskOp(t), TaskArgs(t), get_data(Built(disk, 1)))

\* the analysis of a task raises on the files of the run
OwnFailure(t) ==
    AnalysisCall(TaskOp(t), TaskArgs(t), dirExists, present, disk, NoneTables, 0).outcome
        = "raised"

\* C24: after a successful load, the failure of one analysis task does not
\* keep the other analysis tasks from running to completion with the results
\* they produce when all succeed: an analysis task that has not started can
\* start whatever the states of the others, none is marked upstream_failed, a
\* task that succeeded pushed the result of its analysis on the dataset, and a
\* task fails or retries only when its own analysis raises.
C24_AnalysisFailuresIndependent ==
    taskState["load_movielens_data"] = "success" =>
        \A t \in AnalysisTasks :
            /\ taskState[t] = "none" => ENABLED StartTask(t)
            /\ taskState[t] # "upstream_failed"
            /\ taskState[t] = "success" =>
                  (~OwnFailure(t) /\ xcom[t] = [pushed |-> TRUE, value |-> OwnOutcome(t).result])
            /\ taskState[t] \in {"up_for_retry", "failed"} => OwnFailure(t)

\* no title matches: similar_movies_analysis has failed after its retries, the
\* other three analysis tasks have succeeded
C24_Witness ==
    /\ taskState["load_movielens_data"] = "success"
    /\ taskState["similar_movies_analysis"] = "failed"
    /\ tries["similar_movies_analysis"] = retries + 1
    /\ \A t \in AnalysisTasks \ {"similar_movies_analysis"} :
          taskState[t] = "success" /\ xcom[t].pushed
    /\ xcom["mean_age_by_occupation"].value # <<>>

\* a run of news_pipeline_dag in state success whose execution date is the
\* day of this run
NewsSucceededToday ==
    \E run \in dagRuns : run.state = "success" /\ run.execution_date = logical_date

\* C26: the load task and the analysis tasks have started only if a
\* successful news_pipeline_dag run of the same day exists; an attempt of
\* check_pipeline1_success that ends while there is none does not succeed,
\* and once the check has failed neither the load nor an analysis starts.
C26_GatedByNewsPipeline ==
    /\ [](\A t \in {"load_movielens_data"} \cup AnalysisTasks :
             /\ Started(t) => NewsSucceededToday
             /\ taskState["check_pipeline1_success"] = "failed" => ~Started(t))
    /\ [][(/\ taskState["check_pipeline1_success"] = "running"
           /\ taskState'["check_pipeline1_success"] # "running"
           /\ ~NewsSucceededToday)
             => taskState'["check_pipeline1_success"] \in {"up_for_retry", "failed"}]_vars

\* the news pipeline succeeded the day before only: the check has failed on
\* all its attempts and the load is never run
C26_Witness ==
    /\ dagRuns = {DagRun("2025-06-23", "success")}
    /\ taskState["check_pipeline1_success"] = "failed"
    /\ tries["check_pipeline1_success"] = retries + 1
    /\ taskState["load_movielens_data"] = "upstream_failed"

====
